---------------------------- MODULE Spec2Model ----------------------------
(***************************************************************************)
(* Retrieval and reranking engine of the CompTIA Security+ RAG system.     *)
(*                                                                         *)
(*   llm_reranker.py       LLMReranker.rerank                              *)
(*   rag_retriever.py      RAGRetriever.__init__, embed_query,             *)
(*                         retrieve_level_two, retrieve_for_exam_question, *)
(*                         retrieve_with_reranking, retrieve_with_scores   *)
(*   vector_db_manager.py  VectorDBManager.__init__, create_collection,    *)
(*                         upload_embeddings, search, delete_collection    *)
(*   api_server.py         QueryRequest, SearchRequest (the bounds of k)   *)
(*   summary_generator.py  SummaryGenerator.generate_summary               *)
(*   exam_evaluator.py     ExamQuestionParser.parse_question               *)
(*                                                                         *)
(* Conventions.  The response of the judgment model and the text of an    *)
(* exam question are Python strs kept                                      *)
(* as a sequence of one-character strings; a character above U+007F is     *)
(* written by the name of its code point ("U+00A0" is NO-BREAK SPACE,      *)
(* "U+FF12" is FULLWIDTH DIGIT TWO).  The text of a passage field          *)
(* and of a context is kept as a sequence of pieces of text, its           *)
(* concatenation being the Python str.  A score is kept in hundredths      *)
(* (1.0 is 100, 0.95 is 95), so that the reranker's 1.0 - rank * 0.05 is   *)
(* 100 - rank * 5.  Inside rerank a SearchResult is an object: heap maps   *)
(* an object reference to its fields, and a Python list of results is a    *)
(* sequence of references, so that an assignment to result.score is seen   *)
(* through every list that holds the reference.                            *)
(***************************************************************************)
EXTENDS Integers, Sequences, FiniteSets, TLC

VARIABLES
    \* ---- LLMReranker.rerank ----
    heap,              \* object reference -> SearchResult fields
    given,             \* the fields every candidate had when rerank was called
    results,           \* argument `results`: list of references
    k,                 \* argument `k`
    pc,                \* position in rerank
    response,          \* outcome of self.model.generate_content / response.text
    calls,             \* number of generate_content calls made
    relevant_indices,  \* local `relevant_indices`
    reranked,          \* local `reranked`
    ret,               \* the returned list (of references)
    \* ---- RAGRetriever.retrieve_for_exam_question ----
    epc,               \* position in retrieve_for_exam_question
    ek,                \* argument `k`
    exam_chapter_filter, \* argument `chapter_filter` of retrieve_for_exam_question
    exam_error,        \* the exception that left retrieve_for_exam_question
    options,           \* argument `options`
    opt_i,             \* number of options already queried
    surfaced,          \* the sub-queries issued so far and what each returned
    results_by_id,     \* local dict `results_by_id`: its values in insertion order
    final_results,     \* the returned list
    context,           \* the returned context text
    \* ---- RAGRetriever / VectorDBManager ----
    rpc,               \* position in the constructor or in the retrieval call
    entry,             \* the entry point called
    rargs,             \* its arguments
    server_up,         \* whether the Qdrant server can be reached
    embeddings_file,   \* whether embeddings.json exists
    client,            \* which store vector_db.client talks to
    stores,            \* the collection of each store
    uploads,           \* the upload_embeddings calls into the collection: one record each
    embed_calls,       \* the embeddings.create calls made: how each ended
    index_calls,       \* the requests sent to client.search
    initial_results,   \* local `initial_results` of retrieve_with_reranking
    rresults,          \* the returned list
    rcontext,          \* the returned context text
    rerror,            \* the exception that reached the caller
    \* ---- SummaryGenerator (summary_generator.py) ----
    gpc,               \* position in generate_summary
    retries,           \* argument `retries`
    attempt,           \* loop variable `attempt`
    attempts,          \* how each chat.completions.create call of this call ended
    sleeps,            \* the arguments of time.sleep in this call
    successful_summaries,  \* self.successful_summaries
    failed_summaries,      \* self.failed_summaries
    generated,         \* the generate_summary calls completed so far
    \* ---- ExamQuestionParser.parse_question (exam_evaluator.py) ----
    ppc,               \* position in parse_question
    question_text,     \* argument `text`
    lines,             \* text.strip().split('\n')
    line_i,            \* number of lines consumed
    current_section,   \* local `current_section`
    option_mode,       \* local `option_mode`
    scenario_lines,    \* local `scenario_lines`
    question_lines,    \* local `question_lines`
    options_list,      \* local `options_list`
    correct_answer,    \* local `correct_answer`
    explanation_lines, \* local `explanation_lines`
    exam_question      \* the ExamQuestion returned

rerankVars == <<heap, given, results, k, pc, response, calls, relevant_indices,
                reranked, ret>>
examVars   == <<epc, ek, exam_chapter_filter, options, opt_i, surfaced, results_by_id,
                 final_results, context, exam_error>>
retrVars   == <<rpc, entry, rargs, server_up, embeddings_file, client, stores, uploads,
                embed_calls, index_calls, initial_results, rresults, rcontext, rerror>>
summaryVars == <<gpc, retries, attempt, attempts, sleeps, successful_summaries,
                 failed_summaries, generated>>
parserVars  == <<ppc, question_text, lines, line_i, current_section, option_mode, scenario_lines,
                 question_lines, options_list, correct_answer, explanation_lines,
                 exam_question>>
vars       == <<rerankVars, examVars, retrVars, summaryVars, parserVars>>

-----------------------------------------------------------------------------
(* Bounds of the model *)

MaxCand   == 5     \* longest candidate list
MaxK      == 3     \* largest k
MaxTokens == 3     \* most comma-separated tokens in a model response
MaxOptions == 3    \* most answer options of an exam question
CorpusSize == 13   \* passages in the index

-----------------------------------------------------------------------------
(* Sequences *)

Min(a, b) == IF a <= b THEN a ELSE b
Max(a, b) == IF a >= b THEN a ELSE b

\* Python s[:n] for n >= 0
Take(s, n) == SubSeq(s, 1, Min(n, Len(s)))

\* Python `x in s` for a list of plain values
Range(s) == {s[i] : i \in 1..Len(s)}

RECURSIVE SeqsUpTo(_, _)
\* all sequences over S of length at most n
SeqsUpTo(S, n) ==
    IF n = 0 THEN {<<>>}
    ELSE LET shorter == SeqsUpTo(S, n - 1)
         IN  shorter \cup {Append(s, x) : s \in {t \in shorter : Len(t) = n - 1}, x \in S}

-----------------------------------------------------------------------------
(* SearchResult (vector_db_manager.py) *)

ChunkNames ==
    <<"A", "B", "C", "D", "E", "F", "G", "H", "I", "J", "K", "L", "M", "N", "O", "P">>

\* The payload fields copied from the passage with chunk_id cid.
SearchResult(cid, score) ==
    [chunk_id       |-> cid,
     content        |-> <<"content of", cid>>,
     summary        |-> <<"summary of", cid>>,
     section_header |-> <<"header of", cid>>,
     score          |-> score,
     metadata       |-> [chapter_num |-> "1", content_type |-> "text"]]

\* Similarity scores the index hands out, in hundredths.
Scores == {98, 90}

\* dataclass __eq__: field by field, score included
ResultEq(h, a, b) == h[a] = h[b]

\* Python `result in lst` for a list of SearchResult references:
\* identity first, then __eq__.
ResultIn(h, ref, lst) ==
    \E i \in 1..Len(lst) : lst[i] = ref \/ ResultEq(h, lst[i], ref)

-----------------------------------------------------------------------------
(* Python text operations used by the index parser (llm_reranker.py 112-121) *)

\* the characters str.strip() removes and \s matches (str.isspace): the ASCII
\* ones with VT (U+000B) and FS GS RS US (U+001C-U+001F), then NEL, NBSP and
\* the Unicode spaces
Whitespace ==
    {" ", "\t", "\n", "\r", "\f", "", "", "", "", "", "U+0085", "U+00A0",
     "U+1680", "U+2000", "U+2001", "U+2002", "U+2003", "U+2004", "U+2005", "U+2006", "U+2007",
     "U+2008", "U+2009", "U+200A", "U+2028", "U+2029", "U+202F", "U+205F", "U+3000"}
DigitChars == <<"0", "1", "2", "3", "4", "5", "6", "7", "8", "9">>
\* the other decimal digits int() reads (Unicode category Nd), one row per
\* script, each row in the order of its values 0..9
UnicodeDigits ==
    <<
       <<"U+0660", "U+0661", "U+0662", "U+0663", "U+0664", "U+0665", "U+0666", "U+0667", "U+0668", "U+0669">>,
       <<"U+06F0", "U+06F1", "U+06F2", "U+06F3", "U+06F4", "U+06F5", "U+06F6", "U+06F7", "U+06F8", "U+06F9">>,
       <<"U+07C0", "U+07C1", "U+07C2", "U+07C3", "U+07C4", "U+07C5", "U+07C6", "U+07C7", "U+07C8", "U+07C9">>,
       <<"U+0966", "U+0967", "U+0968", "U+0969", "U+096A", "U+096B", "U+096C", "U+096D", "U+096E", "U+096F">>,
       <<"U+09E6", "U+09E7", "U+09E8", "U+09E9", "U+09EA", "U+09EB", "U+09EC", "U+09ED", "U+09EE", "U+09EF">>,
       <<"U+0A66", "U+0A67", "U+0A68", "U+0A69", "U+0A6A", "U+0A6B", "U+0A6C", "U+0A6D", "U+0A6E", "U+0A6F">>,
       <<"U+0AE6", "U+0AE7", "U+0AE8", "U+0AE9", "U+0AEA", "U+0AEB", "U+0AEC", "U+0AED", "U+0AEE", "U+0AEF">>,
       <<"U+0B66", "U+0B67", "U+0B68", "U+0B69", "U+0B6A", "U+0B6B", "U+0B6C", "U+0B6D", "U+0B6E", "U+0B6F">>,
       <<"U+0BE6", "U+0BE7", "U+0BE8", "U+0BE9", "U+0BEA", "U+0BEB", "U+0BEC", "U+0BED", "U+0BEE", "U+0BEF">>,
       <<"U+0C66", "U+0C67", "U+0C68", "U+0C69", "U+0C6A", "U+0C6B", "U+0C6C", "U+0C6D", "U+0C6E", "U+0C6F">>,
       <<"U+0CE6", "U+0CE7", "U+0CE8", "U+0CE9", "U+0CEA", "U+0CEB", "U+0CEC", "U+0CED", "U+0CEE", "U+0CEF">>,
       <<"U+0D66", "U+0D67", "U+0D68", "U+0D69", "U+0D6A", "U+0D6B", "U+0D6C", "U+0D6D", "U+0D6E", "U+0D6F">>,
       <<"U+0DE6", "U+0DE7", "U+0DE8", "U+0DE9", "U+0DEA", "U+0DEB", "U+0DEC", "U+0DED", "U+0DEE", "U+0DEF">>,
       <<"U+0E50", "U+0E51", "U+0E52", "U+0E53", "U+0E54", "U+0E55", "U+0E56", "U+0E57", "U+0E58", "U+0E59">>,
       <<"U+0ED0", "U+0ED1", "U+0ED2", "U+0ED3", "U+0ED4", "U+0ED5", "U+0ED6", "U+0ED7", "U+0ED8", "U+0ED9">>,
       <<"U+0F20", "U+0F21", "U+0F22", "U+0F23", "U+0F24", "U+0F25", "U+0F26", "U+0F27", "U+0F28", "U+0F29">>,
       <<"U+1040", "U+1041", "U+1042", "U+1043", "U+1044", "U+1045", "U+1046", "U+1047", "U+1048", "U+1049">>,
       <<"U+1090", "U+1091", "U+1092", "U+1093", "U+1094", "U+1095", "U+1096", "U+1097", "U+1098", "U+1099">>,
       <<"U+17E0", "U+17E1", "U+17E2", "U+17E3", "U+17E4", "U+17E5", "U+17E6", "U+17E7", "U+17E8", "U+17E9">>,
       <<"U+1810", "U+1811", "U+1812", "U+1813", "U+1814", "U+1815", "U+1816", "U+1817", "U+1818", "U+1819">>,
       <<"U+1946", "U+1947", "U+1948", "U+1949", "U+194A", "U+194B", "U+194C", "U+194D", "U+194E", "U+194F">>,
       <<"U+19D0", "U+19D1", "U+19D2", "U+19D3", "U+19D4", "U+19D5", "U+19D6", "U+19D7", "U+19D8", "U+19D9">>,
       <<"U+1A80", "U+1A81", "U+1A82", "U+1A83", "U+1A84", "U+1A85", "U+1A86", "U+1A87", "U+1A88", "U+1A89">>,
       <<"U+1A90", "U+1A91", "U+1A92", "U+1A93", "U+1A94", "U+1A95", "U+1A96", "U+1A97", "U+1A98", "U+1A99">>,
       <<"U+1B50", "U+1B51", "U+1B52", "U+1B53", "U+1B54", "U+1B55", "U+1B56", "U+1B57", "U+1B58", "U+1B59">>,
       <<"U+1BB0", "U+1BB1", "U+1BB2", "U+1BB3", "U+1BB4", "U+1BB5", "U+1BB6", "U+1BB7", "U+1BB8", "U+1BB9">>,
       <<"U+1C40", "U+1C41", "U+1C42", "U+1C43", "U+1C44", "U+1C45", "U+1C46", "U+1C47", "U+1C48", "U+1C49">>,
       <<"U+1C50", "U+1C51", "U+1C52", "U+1C53", "U+1C54", "U+1C55", "U+1C56", "U+1C57", "U+1C58", "U+1C59">>,
       <<"U+A620", "U+A621", "U+A622", "U+A623", "U+A624", "U+A625", "U+A626", "U+A627", "U+A628", "U+A629">>,
       <<"U+A8D0", "U+A8D1", "U+A8D2", "U+A8D3", "U+A8D4", "U+A8D5", "U+A8D6", "U+A8D7", "U+A8D8", "U+A8D9">>,
       <<"U+A900", "U+A901", "U+A902", "U+A903", "U+A904", "U+A905", "U+A906", "U+A907", "U+A908", "U+A909">>,
       <<"U+A9D0", "U+A9D1", "U+A9D2", "U+A9D3", "U+A9D4", "U+A9D5", "U+A9D6", "U+A9D7", "U+A9D8", "U+A9D9">>,
       <<"U+A9F0", "U+A9F1", "U+A9F2", "U+A9F3", "U+A9F4", "U+A9F5", "U+A9F6", "U+A9F7", "U+A9F8", "U+A9F9">>,
       <<"U+AA50", "U+AA51", "U+AA52", "U+AA53", "U+AA54", "U+AA55", "U+AA56", "U+AA57", "U+AA58", "U+AA59">>,
       <<"U+ABF0", "U+ABF1", "U+ABF2", "U+ABF3", "U+ABF4", "U+ABF5", "U+ABF6", "U+ABF7", "U+ABF8", "U+ABF9">>,
       <<"U+FF10", "U+FF11", "U+FF12", "U+FF13", "U+FF14", "U+FF15", "U+FF16", "U+FF17", "U+FF18", "U+FF19">>,
       <<"U+104A0", "U+104A1", "U+104A2", "U+104A3", "U+104A4", "U+104A5", "U+104A6", "U+104A7", "U+104A8", "U+104A9">>,
       <<"U+10D30", "U+10D31", "U+10D32", "U+10D33", "U+10D34", "U+10D35", "U+10D36", "U+10D37", "U+10D38", "U+10D39">>,
       <<"U+11066", "U+11067", "U+11068", "U+11069", "U+1106A", "U+1106B", "U+1106C", "U+1106D", "U+1106E", "U+1106F">>,
       <<"U+110F0", "U+110F1", "U+110F2", "U+110F3", "U+110F4", "U+110F5", "U+110F6", "U+110F7", "U+110F8", "U+110F9">>,
       <<"U+11136", "U+11137", "U+11138", "U+11139", "U+1113A", "U+1113B", "U+1113C", "U+1113D", "U+1113E", "U+1113F">>,
       <<"U+111D0", "U+111D1", "U+111D2", "U+111D3", "U+111D4", "U+111D5", "U+111D6", "U+111D7", "U+111D8", "U+111D9">>,
       <<"U+112F0", "U+112F1", "U+112F2", "U+112F3", "U+112F4", "U+112F5", "U+112F6", "U+112F7", "U+112F8", "U+112F9">>,
       <<"U+11450", "U+11451", "U+11452", "U+11453", "U+11454", "U+11455", "U+11456", "U+11457", "U+11458", "U+11459">>,
       <<"U+114D0", "U+114D1", "U+114D2", "U+114D3", "U+114D4", "U+114D5", "U+114D6", "U+114D7", "U+114D8", "U+114D9">>,
       <<"U+11650", "U+11651", "U+11652", "U+11653", "U+11654", "U+11655", "U+11656", "U+11657", "U+11658", "U+11659">>,
       <<"U+116C0", "U+116C1", "U+116C2", "U+116C3", "U+116C4", "U+116C5", "U+116C6", "U+116C7", "U+116C8", "U+116C9">>,
       <<"U+11730", "U+11731", "U+11732", "U+11733", "U+11734", "U+11735", "U+11736", "U+11737", "U+11738", "U+11739">>,
       <<"U+118E0", "U+118E1", "U+118E2", "U+118E3", "U+118E4", "U+118E5", "U+118E6", "U+118E7", "U+118E8", "U+118E9">>,
       <<"U+11950", "U+11951", "U+11952", "U+11953", "U+11954", "U+11955", "U+11956", "U+11957", "U+11958", "U+11959">>,
       <<"U+11C50", "U+11C51", "U+11C52", "U+11C53", "U+11C54", "U+11C55", "U+11C56", "U+11C57", "U+11C58", "U+11C59">>,
       <<"U+11D50", "U+11D51", "U+11D52", "U+11D53", "U+11D54", "U+11D55", "U+11D56", "U+11D57", "U+11D58", "U+11D59">>,
       <<"U+11DA0", "U+11DA1", "U+11DA2", "U+11DA3", "U+11DA4", "U+11DA5", "U+11DA6", "U+11DA7", "U+11DA8", "U+11DA9">>,
       <<"U+16A60", "U+16A61", "U+16A62", "U+16A63", "U+16A64", "U+16A65", "U+16A66", "U+16A67", "U+16A68", "U+16A69">>,
       <<"U+16AC0", "U+16AC1", "U+16AC2", "U+16AC3", "U+16AC4", "U+16AC5", "U+16AC6", "U+16AC7", "U+16AC8", "U+16AC9">>,
       <<"U+16B50", "U+16B51", "U+16B52", "U+16B53", "U+16B54", "U+16B55", "U+16B56", "U+16B57", "U+16B58", "U+16B59">>,
       <<"U+1D7CE", "U+1D7CF", "U+1D7D0", "U+1D7D1", "U+1D7D2", "U+1D7D3", "U+1D7D4", "U+1D7D5", "U+1D7D6", "U+1D7D7">>,
       <<"U+1D7D8", "U+1D7D9", "U+1D7DA", "U+1D7DB", "U+1D7DC", "U+1D7DD", "U+1D7DE", "U+1D7DF", "U+1D7E0", "U+1D7E1">>,
       <<"U+1D7E2", "U+1D7E3", "U+1D7E4", "U+1D7E5", "U+1D7E6", "U+1D7E7", "U+1D7E8", "U+1D7E9", "U+1D7EA", "U+1D7EB">>,
       <<"U+1D7EC", "U+1D7ED", "U+1D7EE", "U+1D7EF", "U+1D7F0", "U+1D7F1", "U+1D7F2", "U+1D7F3", "U+1D7F4", "U+1D7F5">>,
       <<"U+1D7F6", "U+1D7F7", "U+1D7F8", "U+1D7F9", "U+1D7FA", "U+1D7FB", "U+1D7FC", "U+1D7FD", "U+1D7FE", "U+1D7FF">>,
       <<"U+1E140", "U+1E141", "U+1E142", "U+1E143", "U+1E144", "U+1E145", "U+1E146", "U+1E147", "U+1E148", "U+1E149">>,
       <<"U+1E2F0", "U+1E2F1", "U+1E2F2", "U+1E2F3", "U+1E2F4", "U+1E2F5", "U+1E2F6", "U+1E2F7", "U+1E2F8", "U+1E2F9">>,
       <<"U+1E950", "U+1E951", "U+1E952", "U+1E953", "U+1E954", "U+1E955", "U+1E956", "U+1E957", "U+1E958", "U+1E959">>,
       <<"U+1FBF0", "U+1FBF1", "U+1FBF2", "U+1FBF3", "U+1FBF4", "U+1FBF5", "U+1FBF6", "U+1FBF7", "U+1FBF8", "U+1FBF9">>
    >>
Decimals == <<DigitChars>> \o UnicodeDigits
\* the digits of value v, one per script
DigitsOfValue == [v \in 0..9 |-> {Decimals[r][v + 1] : r \in 1..Len(Decimals)}]
IsDigit(c) == \E v \in 0..9 : c \in DigitsOfValue[v]
DigitVal(c) == CHOOSE v \in 0..9 : c \in DigitsOfValue[v]

RECURSIVE LStrip(_)
LStrip(s) == IF s # <<>> /\ Head(s) \in Whitespace THEN LStrip(Tail(s)) ELSE s

RECURSIVE RStrip(_)
RStrip(s) ==
    IF s # <<>> /\ s[Len(s)] \in Whitespace THEN RStrip(SubSeq(s, 1, Len(s) - 1)) ELSE s

\* str.strip()
Strip(s) == RStrip(LStrip(s))

RECURSIVE SplitFrom(_, _, _)
\* Tokens of s, given that cur is the token being read.
SplitFrom(s, sep, cur) ==
    IF s = <<>> THEN <<cur>>
    ELSE IF Head(s) = sep THEN <<cur>> \o SplitFrom(Tail(s), sep, <<>>)
    ELSE SplitFrom(Tail(s), sep, Append(cur, Head(s)))

\* str.split(sep): the empty string splits into one empty token
Split(s, sep) == SplitFrom(s, sep, <<>>)

RECURSIVE DecValue(_, _)
\* value of the digits of s, underscores skipped, after the digits read so far
DecValue(s, acc) ==
    IF s = <<>> THEN acc
    ELSE IF Head(s) = "_" THEN DecValue(Tail(s), acc)
    ELSE DecValue(Tail(s), acc * 10 + DigitVal(Head(s)))

\* digits, with single underscores allowed between two digits
IsDigitString(s) ==
    /\ s # <<>>
    /\ IsDigit(s[1]) /\ IsDigit(s[Len(s)])
    /\ \A i \in 1..Len(s) : IsDigit(s[i]) \/ s[i] = "_"
    /\ \A i \in 1..(Len(s) - 1) : ~(s[i] = "_" /\ s[i + 1] = "_")

\* the most digits int() converts (sys.int_info.default_max_str_digits)
MaxStrDigits == 4300

\* the digits of s, its underscores not counted
DigitCount(s) == Cardinality({i \in 1..Len(s) : IsDigit(s[i])})

\* int(s) for a str: [ok |-> TRUE, val |-> n], or ok = FALSE for ValueError
\* (not a number, or more digits than int() converts)
ParseInt(s) ==
    LET t    == Strip(s)
        sgn  == t # <<>> /\ Head(t) \in {"+", "-"}
        body == IF sgn THEN Tail(t) ELSE t
    IN  IF IsDigitString(body) /\ DigitCount(body) <= MaxStrDigits
        THEN [ok |-> TRUE,
              val |-> IF sgn /\ Head(t) = "-" THEN 0 - DecValue(body, 0)
                      ELSE DecValue(body, 0)]
        ELSE [ok |-> FALSE, val |-> 0]

-----------------------------------------------------------------------------
(* LLMReranker.rerank (llm_reranker.py 38-149) *)

\* 0 <= idx < len(results)
InRange(idx, n) == 0 <= idx /\ idx < n

RECURSIVE KeepValid(_, _)
\* the for loop over the tokens: int(idx_str.strip()), ValueError skipped,
\* an index out of range skipped
KeepValid(tokens, n) ==
    IF tokens = <<>> THEN <<>>
    ELSE LET p == ParseInt(Strip(Head(tokens)))
         IN  (IF p.ok /\ InRange(p.val, n) THEN <<p.val>> ELSE <<>>)
                 \o KeepValid(Tail(tokens), n)

\* relevant_indices for a response text and n candidates
ParseIndices(text, n) == KeepValid(Split(Strip(text), ","), n)

\* result.score = 1.0 - (len(reranked) * 0.05), in hundredths
RankScore(rank) == 100 - rank * 5

RECURSIVE BuildFrom_fromend(_, _, _, _)
\* faulty variant: the index is counted from the end of the candidate list
BuildFrom_fromend(h, res, idxs, acc) ==
    IF idxs = <<>> THEN [heap |-> h, reranked |-> acc]
    ELSE LET ref == res[Len(res) - Head(idxs)]
         IN  BuildFrom_fromend([h EXCEPT ![ref].score = RankScore(Len(acc))],
                               res, Tail(idxs), Append(acc, ref))

RECURSIVE BuildFrom(_, _, _, _)
\* the loop `for idx in relevant_indices[:k]`: the candidate at idx gets its
\* rank score written into the object itself and its reference is appended
BuildFrom(h, res, idxs, acc) ==
    IF idxs = <<>> THEN [heap |-> h, reranked |-> acc]
    ELSE LET ref == res[Head(idxs) + 1]
         IN  BuildFrom([h EXCEPT ![ref].score = RankScore(Len(acc))],
                       res, Tail(idxs), Append(acc, ref))

BuildReranked(h, res, idxs, kk) == BuildFrom(h, res, Take(idxs, kk), <<>>)

RECURSIVE PadFor(_, _, _, _)
\* one run of `for result in results`: append what is not in reranked,
\* break once len(reranked) >= k
PadFor(h, rest, kk, acc) ==
    IF rest = <<>> THEN acc
    ELSE IF ResultIn(h, Head(rest), acc) THEN PadFor(h, Tail(rest), kk, acc)
    ELSE LET more == Append(acc, Head(rest))
         IN  IF Len(more) >= kk THEN more ELSE PadFor(h, Tail(rest), kk, more)

\* the condition of the while loop
PadNeeded(acc, res, kk) == Len(acc) < kk /\ Len(acc) < Len(res)

\* `except Exception`: the fallback to the original order
HandleException(res, kk) == [raised |-> FALSE, value |-> Take(res, kk)]

\* faulty variant: the fallback returns the whole candidate list
ParseFallback_unsliced(res, kk) == res

\* `if len(relevant_indices) == 0: return results[:k]`
ParseFallback(res, kk) == Take(res, kk)

\* `if len(results) == 0: return []` / `if len(results) <= k: return results[:k]`
EarlyReturn(res, kk) == IF Len(res) = 0 THEN <<>> ELSE Take(res, kk)

\* faulty variant: `<` for `<=` in the early return
ReturnsEarly_strict(res, kk) == Len(res) = 0 \/ Len(res) < kk

\* whether rerank returns before building the prompt
ReturnsEarly(res, kk) == Len(res) = 0 \/ Len(res) <= kk

\* `return reranked[:k]`
FinalSlice(acc, kk) == Take(acc, kk)

(* The judgment model: what generate_content / response.text can give *)

NotAList == <<"n", "o", "t", " ", "a", " ", "l", "i", "s", "t">>
Tokens ==
    {<<"0">>, <<"1">>, <<"2">>, <<"4">>, <<"-", "1">>, <<"\r", "U+FF12", " ">>, NotAList}

RECURSIVE JoinTokens(_)
JoinTokens(ts) ==
    IF ts = <<>> THEN <<>>
    ELSE IF Len(ts) = 1 THEN ts[1]
    ELSE ts[1] \o <<",">> \o JoinTokens(Tail(ts))

\* An outcome of the call: the text the model wrote (tokens are the entries it
\* meant, text is what response.text holds), or an error raised by the call.
NoResponse == [kind |-> "none", tokens |-> <<>>, text |-> <<>>]
Outcomes ==
    {[kind |-> "text", tokens |-> ts, text |-> JoinTokens(ts)] :
        ts \in SeqsUpTo(Tokens, MaxTokens)}
    \cup {[kind |-> "error", tokens |-> <<>>, text |-> <<>>]}

(* Candidate lists as the index gives them: one hit per point, scores
   non-increasing. Points are numbered by position (PointId), so the same
   passage can be held by several points; its hits then have the same fields
   and the same score. *)
ScoreLists ==
    {sc \in SeqsUpTo(Scores, MaxCand) : \A i \in 1..(Len(sc) - 1) : sc[i] >= sc[i + 1]}

\* lists of <<chunk_id, score>> with pairwise distinct chunk_ids
DistinctLists ==
    {[i \in 1..Len(sc) |-> <<ChunkNames[i], sc[i]>>] : sc \in ScoreLists}

RepeatNames == {"A", "B"}

\* lists over two passages, each of which may come more than once
RepeatLists ==
    {c \in SeqsUpTo(RepeatNames \X Scores, MaxCand) :
        /\ \A i \in 1..(Len(c) - 1) : c[i][2] >= c[i + 1][2]
        /\ \A i, j \in 1..Len(c) : c[i][1] = c[j][1] => c[i][2] = c[j][2]}

CandidateLists == DistinctLists \cup RepeatLists

RepeatTokens == {<<"0">>, <<"1">>, <<"2">>}

\* the responses tried on a list that holds a passage more than once
RepeatOutcomes ==
    {[kind |-> "text", tokens |-> ts, text |-> JoinTokens(ts)] :
        ts \in SeqsUpTo(RepeatTokens, 2)}
    \cup {[kind |-> "error", tokens |-> <<>>, text |-> <<>>]}

\* no two candidates of the call carry the same chunk_id
DistinctIds ==
    \A i, j \in 1..Len(results) :
        given[results[i]].chunk_id = given[results[j]].chunk_id => i = j

RerankIdle ==
    /\ heap = <<>> /\ given = <<>> /\ results = <<>> /\ k = 0 /\ pc = "idle"
    /\ response = NoResponse /\ calls = 0
    /\ relevant_indices = <<>> /\ reranked = <<>> /\ ret = <<>>

\* the options of a question without options
NoOptions == [kind |-> "list", items |-> <<>>]

ExamIdle ==
    /\ epc = "idle" /\ ek = 0 /\ exam_chapter_filter = <<>> /\ options = NoOptions /\ opt_i = 0
    /\ surfaced = <<>>
    /\ results_by_id = <<>> /\ final_results = <<>> /\ context = <<>>
    /\ exam_error = "none"

\* Optional[str]: None is the empty sequence, a str s is <<s>>
None == <<>>
Some(s) == <<s>>

NoCollection == [exists |-> FALSE, points |-> <<>>]
NoArgs == [via |-> "none", query |-> 0, k |-> 0, initial_k |-> 0,
           chapter_filter |-> None, content_type_filter |-> None, score_threshold |-> 0]

SummaryIdle ==
    /\ gpc = "idle" /\ retries = 0 /\ attempt = 0 /\ attempts = <<>> /\ sleeps = <<>>
    /\ successful_summaries = 0 /\ failed_summaries = 0 /\ generated = <<>>

NoQuestion == [scenario |-> <<>>, question |-> <<>>, options |-> <<>>,
               correct_answer |-> None, explanation |-> None]

ParserIdle ==
    /\ ppc = "idle" /\ question_text = <<>> /\ lines = <<>> /\ line_i = 0
    /\ current_section = "scenario" /\ option_mode = None
    /\ scenario_lines = <<>> /\ question_lines = <<>> /\ options_list = <<>>
    /\ correct_answer = None /\ explanation_lines = <<>> /\ exam_question = NoQuestion

RetrIdle ==
    /\ rpc = "idle" /\ entry = "none" /\ rargs = NoArgs
    /\ server_up = FALSE /\ embeddings_file = FALSE /\ client = "none"
    /\ stores = [server |-> NoCollection, memory |-> NoCollection]
    /\ uploads = <<>> /\ embed_calls = <<>> /\ index_calls = <<>>
    /\ initial_results = <<>> /\ rresults = <<>> /\ rcontext = <<>> /\ rerror = "none"

InitRerank ==
    /\ \E c \in CandidateLists :
          /\ heap = [i \in 1..Len(c) |-> SearchResult(c[i][1], c[i][2])]
          /\ results = [i \in 1..Len(c) |-> i]
    /\ given = heap
    /\ k \in 1..MaxK
    /\ pc = "start"
    /\ response = NoResponse /\ calls = 0
    /\ relevant_indices = <<>> /\ reranked = <<>> /\ ret = <<>>
    /\ ExamIdle
    /\ RetrIdle
    /\ SummaryIdle
    /\ ParserIdle

\* lines 55-60
RerankEarlyReturn ==
    /\ pc = "start"
    /\ ReturnsEarly(results, k)
    /\ ret' = EarlyReturn(results, k)
    /\ pc' = "done"
    /\ UNCHANGED <<heap, given, results, k, response, calls, relevant_indices, reranked>>
    /\ UNCHANGED <<examVars, retrVars, summaryVars, parserVars>>

\* lines 62-134 and 146-149: the prompt, the model call, the parse, the
\* fallbacks and the building of the reranked list, for the outcomes `outs`
\* that the model call can have
JudgeStep(outs) ==
    /\ pc = "start"
    /\ ~ReturnsEarly(results, k)
    /\ \E out \in outs :
          /\ response' = out
          /\ calls' = calls + 1
          /\ IF out.kind = "error"
             THEN /\ pc' = IF HandleException(results, k).raised THEN "raised" ELSE "done"
                  /\ ret' = HandleException(results, k).value
                  /\ UNCHANGED <<heap, relevant_indices, reranked>>
             ELSE LET idxs == ParseIndices(out.text, Len(results))
                      built == BuildReranked(heap, results, idxs, k)
                  IN  /\ relevant_indices' = idxs
                      /\ IF Len(idxs) = 0
                         THEN /\ ret' = ParseFallback(results, k)
                              /\ pc' = "done"
                              /\ UNCHANGED <<heap, reranked>>
                         ELSE /\ heap' = built.heap
                              /\ reranked' = built.reranked
                              /\ pc' = "pad"
                              /\ ret' = ret
    /\ UNCHANGED <<given, results, k>>
    /\ UNCHANGED <<examVars, retrVars, summaryVars, parserVars>>

RerankJudge == JudgeStep(IF DistinctIds THEN Outcomes ELSE RepeatOutcomes)

\* lines 137-142: one iteration of the while loop
RerankPadPass ==
    /\ pc = "pad"
    /\ PadNeeded(reranked, results, k)
    /\ reranked' = PadFor(heap, results, k, reranked)
    /\ UNCHANGED <<heap, given, results, k, pc, response, calls, relevant_indices, ret>>
    /\ UNCHANGED <<examVars, retrVars, summaryVars, parserVars>>

\* line 144
RerankReturn ==
    /\ pc = "pad"
    /\ ~PadNeeded(reranked, results, k)
    /\ ret' = FinalSlice(reranked, k)
    /\ pc' = "done"
    /\ UNCHANGED <<heap, given, results, k, response, calls, relevant_indices, reranked>>
    /\ UNCHANGED <<examVars, retrVars, summaryVars, parserVars>>

NextRerank ==
    \/ RerankEarlyReturn
    \/ RerankJudge
    \/ RerankPadPass
    \/ RerankReturn

SpecRerank == InitRerank /\ [][NextRerank]_vars

\* rerank runs on one thread without waiting: a statement that can be executed
\* is executed
SpecRerankFair == SpecRerank /\ WF_vars(NextRerank)

-----------------------------------------------------------------------------
(* Properties of rerank *)

Returned == pc = "done"
NumCand  == Len(results)

\* token tok of a response names candidate index i
TokenNames(tok, i) ==
    \/ i \in 0..9 /\ tok = <<DigitChars[i + 1]>>
    \/ i = 2 /\ tok = <<"\r", "U+FF12", " ">>      \* CR, FULLWIDTH DIGIT TWO, space

RECURSIVE NamedIndices(_, _)
\* the indices in [0, n) that the entries of a response name, in response order
NamedIndices(tokens, n) ==
    IF tokens = <<>> THEN <<>>
    ELSE LET named == {i \in 0..(n - 1) : TokenNames(Head(tokens), i)}
         IN  (IF named = {} THEN <<>> ELSE <<CHOOSE i \in named : TRUE>>)
                 \o NamedIndices(Tail(tokens), n)

Named == NamedIndices(response.tokens, NumCand)

\* the call to the judgment model failed, or its text names no valid index
Unusable == response.kind = "error" \/ (response.kind = "text" /\ Named = <<>>)

\* every candidate still carries the fields it had when rerank was called
Untouched == \A ref \in DOMAIN given : heap[ref] = given[ref]

\* C1: for every candidate list, every k >= 1 and every outcome of the model
\* call (any text, or an error), rerank does not raise and returns exactly
\* min(k, len(candidates)) results.
C1_ReturnsMinKNeverRaises ==
    /\ [](pc # "raised")
    /\ <>(Returned /\ Len(ret) = Min(k, NumCand))

\* what holds of C1 in every state: no path raises, and a call that returns
\* returns min(k, len(candidates)) results
ReturnsMinKWhenItReturns ==
    /\ pc # "raised"
    /\ Returned => Len(ret) = Min(k, NumCand)

ErrorFallbackReached ==
    Returned /\ NumCand > k /\ response.kind = "error" /\ Len(ret) = k

\* over candidates of distinct chunk_ids every call returns
ReturnsOnDistinctIds == DistinctIds ~> Returned

\* C2: with len(candidates) <= k rerank returns the candidates unchanged (same
\* elements, same order, same scores) and calls no model; an empty candidate
\* list gives the empty list.
C2_FewCandidatesIdentity ==
    (Returned /\ NumCand <= k) => (ret = results /\ Untouched /\ calls = 0)

C2_Witness ==
    Returned /\ NumCand = k /\ ret = results /\ calls = 0

\* C3: with len(candidates) > k, when the model call fails or its response
\* yields no valid index, rerank returns the first k candidates in their
\* original order, every score untouched.
C3_FallbackFirstK ==
    (Returned /\ NumCand > k /\ Unusable) => (ret = SubSeq(results, 1, k) /\ Untouched)

C3_Witness ==
    /\ Returned /\ NumCand > k /\ k = 3
    /\ response.kind = "text" /\ response.text = NotAList
    /\ ret = <<1, 2, 3>>

\* C4: with len(candidates) > k, rerank returns the candidates at the valid
\* indices of the response, in response order (the first k of them), with
\* synthetic scores that strictly descend by rank.
C4_SelectedInResponseOrder ==
    (Returned /\ NumCand > k /\ response.kind = "text") =>
        LET named == Named
            m     == Min(k, Len(named))
        IN  named # <<>> =>
              /\ Len(ret) >= m
              /\ \A i \in 1..m : ret[i] = results[named[i] + 1]
              /\ \A i \in 1..m : \A j \in 1..m :
                    i < j => heap[ret[i]].score > heap[ret[j]].score

\* the spec's scenario: [A,B,C,D,E], k = 3, response "2,0,4" gives [C, A, E]
\* with scores 1.0, 0.95, 0.90
C4_Scenario ==
    /\ Returned /\ NumCand = 5 /\ k = 3
    /\ response.text = <<"2", ",", "0", ",", "4">>
    /\ ret = <<3, 1, 5>>
    /\ <<heap[3].score, heap[1].score, heap[5].score>> = <<100, 95, 90>>

\* the candidates that none of the indices in named selects, in upstream order
Unselected(named) ==
    SelectSeq(results, LAMBDA ref : \A i \in 1..Len(named) : ref # named[i] + 1)

\* C5: when parsing yields at least one but fewer than k valid indices, the
\* remaining slots are filled with the highest-scoring candidates not already
\* selected (the unselected candidates in upstream similarity order) until k
\* results are reached.
C5_PaddingFromTop ==
    (Returned /\ NumCand > k /\ response.kind = "text") =>
        LET named == Named
            sel   == Len(named)
            rest  == Unselected(named)
        IN  (sel >= 1 /\ sel < k) =>
              /\ Len(ret) = k
              /\ \A i \in 1..sel : ret[i] = results[named[i] + 1]
              /\ \A j \in 1..(k - sel) : ret[sel + j] = rest[j]
              /\ \A j \in 1..(k - sel) : \A ref \in Range(rest) :
                    ref \notin Range(ret) => given[ref].score <= given[ret[sel + j]].score

\* over candidates of distinct chunk_ids the padding is the unselected
\* candidates from the top
PaddingFromTopOnDistinctIds == DistinctIds => C5_PaddingFromTop

PaddingReached ==
    /\ Returned /\ NumCand = 5 /\ k = 3 /\ DistinctIds
    /\ response.text = <<"2">>
    /\ ret = <<3, 1, 2>>

\* [A .98, A .98, B .90, B .90], k = 3, response "2": the second A is skipped
\* as equal to the first and the second B, whose score differs from the
\* selected B's by now, is appended
EqualCandidateSkipped ==
    /\ Returned /\ NumCand = 4 /\ k = 3
    /\ response.text = <<"2">>
    /\ given[1] = given[2] /\ given[3] = given[4] /\ given[1].score > given[3].score
    /\ ret = <<3, 1, 4>>

\* C6: the list returned by rerank never contains the same candidate twice,
\* also for responses that repeat an index.
C6_NoDuplicates ==
    Returned => \A i \in 1..Len(ret) : \A j \in 1..Len(ret) : i # j => ret[i] # ret[j]

\* C7: in every list returned by rerank, score is non-increasing in list order,
\* also when model-selected entries are mixed with padded ones.
C7_ScoresNonIncreasing ==
    Returned => \A i \in 1..(Len(ret) - 1) : heap[ret[i]].score >= heap[ret[i + 1]].score

\* C8: rerank does not mutate the SearchResult objects of its input: after any
\* call every candidate still carries the score it had before the call.
C8_InputNotMutated ==
    Returned => \A ref \in DOMAIN given : heap[ref].score = given[ref].score

-----------------------------------------------------------------------------
(* RAGRetriever.retrieve_for_exam_question (rag_retriever.py 178-250) *)

\* `unique_results[:min(12, len(unique_results))]`
ResultCap == 12

\* k of an option query: max(3, k // 2)
OptionK(kk) == Max(3, kk \div 2)

\* faulty variant: no key is ever found in the dict
KeyIndex_absent(d, cid) == 0

\* position of key cid in a dict kept as the sequence of its values, 0 if absent
KeyIndex(d, cid) ==
    IF \E i \in 1..Len(d) : d[i].chunk_id = cid
    THEN CHOOSE i \in 1..Len(d) : d[i].chunk_id = cid
    ELSE 0

\* `results_by_id[result.chunk_id] = result`: a new key goes last, an existing
\* key keeps its place and takes the new value
DictSet(d, r) ==
    IF KeyIndex(d, r.chunk_id) = 0 THEN Append(d, r)
    ELSE [d EXCEPT ![KeyIndex(d, r.chunk_id)] = r]

\* faulty variant: an option result overwrites the entry of its chunk_id
DictSetIfAbsent_overwrite(d, r) == DictSet(d, r)

\* `if result.chunk_id not in results_by_id: results_by_id[result.chunk_id] = result`
DictSetIfAbsent(d, r) == IF KeyIndex(d, r.chunk_id) = 0 THEN Append(d, r) ELSE d

RECURSIVE MergeMain(_, _)
\* the loop over main_results (216-217)
MergeMain(d, hits) ==
    IF hits = <<>> THEN d ELSE MergeMain(DictSet(d, Head(hits)), Tail(hits))

RECURSIVE MergeOption(_, _)
\* the loop over option_results (228-230)
MergeOption(d, hits) ==
    IF hits = <<>> THEN d ELSE MergeOption(DictSetIfAbsent(d, Head(hits)), Tail(hits))

\* faulty variant: x goes ahead of the elements of its own score
InsertByScore_unstable(sorted, x) ==
    LET ahead == Cardinality({i \in 1..Len(sorted) : sorted[i].score > x.score})
    IN  SubSeq(sorted, 1, ahead) \o <<x>> \o SubSeq(sorted, ahead + 1, Len(sorted))

\* x goes after every element whose score is at least its own
InsertByScore(sorted, x) ==
    LET ahead == Cardinality({i \in 1..Len(sorted) : sorted[i].score >= x.score})
    IN  SubSeq(sorted, 1, ahead) \o <<x>> \o SubSeq(sorted, ahead + 1, Len(sorted))

RECURSIVE SortFrom(_, _)
SortFrom(sorted, rest) ==
    IF rest = <<>> THEN sorted
    ELSE SortFrom(InsertByScore(sorted, Head(rest)), Tail(rest))

\* faulty variant: the list is left in the order of the dictionary
SortByScoreDesc_unsorted(lst) == lst

\* list.sort(key=lambda x: x.score, reverse=True): stable, equal scores keep
\* their order
SortByScoreDesc(lst) == SortFrom(<<>>, lst)

\* faulty variant: the cap is applied to the wrong end of the comparison
Truncate_max(lst) == SubSeq(lst, 1, Min(Max(ResultCap, Len(lst)), Len(lst)))

\* final_results = unique_results[:min(12, len(unique_results))]
Truncate(lst) == SubSeq(lst, 1, Min(ResultCap, Len(lst)))

\* one <document> block (243-248)
DocumentBlock(r) ==
    <<"\n<document>\n">>
    \o r.section_header \o <<"\n\n">>
    \o <<"Text:\n">> \o r.content \o <<"\n\n">>
    \o <<"Summary:\n">> \o r.summary \o <<"\n">>
    \o <<"</document>\n">>

RECURSIVE AssembleContext(_)
AssembleContext(lst) ==
    IF lst = <<>> THEN <<>> ELSE DocumentBlock(Head(lst)) \o AssembleContext(Tail(lst))

(* What retrieve_level_two can give for one sub-query: an error of the
   embedding call or of the index, or at most top_k hits with distinct
   chunk_ids in descending score.  The hits are a run of consecutive passages
   of the corpus from one of a few starting points, scored from `top`
   downwards in steps of `step` (step 0: all scores equal). *)
Starts == {1, 6, 8, 11}
Shapes == {[top |-> 95, step |-> 5], [top |-> 90, step |-> 0]}

Hits(start, shape, top_k) ==
    [i \in 1..Min(top_k, CorpusSize - start + 1) |->
        SearchResult(ChunkNames[start + i - 1], shape.top - shape.step * (i - 1))]

IndexAnswers(top_k) ==
    {Hits(start, shape, top_k) : start \in Starts, shape \in Shapes} \cup {<<>>}

\* the exceptions of retrieve_level_two: of embed_query (122) and of search (125)
SubQueryErrors == {"EmbeddingError", "IndexUnavailable"}

SubQueryOutcomes(top_k) ==
    {[kind |-> "hits", hits |-> h, error |-> "none"] : h \in IndexAnswers(top_k)}
    \cup {[kind |-> "error", hits |-> <<>>, error |-> err] : err \in SubQueryErrors}

\* faulty variant: the exception of a sub-query is caught and the call goes on
Raises_never(out) == FALSE

\* the calls of retrieve_level_two stand outside any try: its exception leaves
\* retrieve_for_exam_question at once
Raises(out) == out.kind = "error"

KValues     == {2, 7}
\* chapter_filter: Optional[str] = None, or the chapter of the question
ExamChapterFilters == {None, Some("1")}
OptionTexts == <<"option 1", "option 2", "option 3", "option 4", "option 5">>
OptionLetters == <<"A", "B", "C", "D", "E">>

\* The argument `options` as the callers pass it: the list of option texts of
\* ExamQuestion.from_text (exam_evaluator.py 56-116), or the dict from letter
\* to text of the questions in main (exam_evaluator.py 306-311), its items in
\* insertion order.
OptionList(n) == [kind |-> "list", items |-> SubSeq(OptionTexts, 1, n)]
OptionDict(n) == [kind |-> "dict", items |-> [i \in 1..n |-> <<OptionLetters[i], OptionTexts[i]>>]]
OptionArgs    == {OptionList(n) : n \in 0..MaxOptions} \cup {OptionDict(n) : n \in 0..MaxOptions}

\* len(options)
OptionsLen(opts) == Len(opts.items)

\* `for option_text in options`: the elements of a list, the keys of a dict
Iterate(opts) ==
    IF opts.kind = "dict" THEN [i \in 1..Len(opts.items) |-> opts.items[i][1]]
    ELSE opts.items

\* main_query = f"{scenario} {question}", option_query = f"{question} {option_text}"
MainQuery          == <<"scenario", "question">>
OptionQuery(text)  == <<"question", text>>

InitExam ==
    /\ epc = "main"
    /\ ek \in KValues
    /\ exam_chapter_filter = None
    /\ options \in OptionArgs
    /\ opt_i = 0
    /\ surfaced = <<>> /\ results_by_id = <<>> /\ final_results = <<>> /\ context = <<>>
    /\ exam_error = "none"
    /\ RerankIdle
    /\ RetrIdle
    /\ SummaryIdle
    /\ ParserIdle

\* lines 206-217: the main query and its merge, for the outcomes `outs` that
\* retrieve_level_two can have
MainQueryStep(outs) ==
    /\ epc = "main"
    /\ \E out \in outs :
          /\ surfaced' = Append(surfaced, [query          |-> MainQuery,
                                           top_k          |-> ek,
                                           chapter_filter |-> exam_chapter_filter,
                                           outcome        |-> out])
          /\ IF Raises(out)
             THEN epc' = "raised" /\ exam_error' = out.error /\ UNCHANGED results_by_id
             ELSE /\ epc' = "options"
                  /\ results_by_id' = MergeMain(results_by_id, out.hits)
                  /\ UNCHANGED exam_error
    /\ UNCHANGED <<ek, exam_chapter_filter, options, opt_i, final_results, context>>
    /\ UNCHANGED <<rerankVars, retrVars, summaryVars, parserVars>>

\* lines 220-230: the query of the next option and its merge, for the outcomes
\* `outs` that retrieve_level_two can have
OptionQueryStep(outs) ==
    /\ epc = "options"
    /\ opt_i < OptionsLen(options)
    /\ \E out \in outs :
          /\ surfaced' = Append(surfaced, [query          |-> OptionQuery(Iterate(options)[opt_i + 1]),
                                           top_k          |-> OptionK(ek),
                                           chapter_filter |-> exam_chapter_filter,
                                           outcome        |-> out])
          /\ IF Raises(out)
             THEN /\ epc' = "raised"
                  /\ exam_error' = out.error
                  /\ UNCHANGED <<results_by_id, opt_i>>
             ELSE /\ epc' = "options"
                  /\ opt_i' = opt_i + 1
                  /\ results_by_id' = MergeOption(results_by_id, out.hits)
                  /\ UNCHANGED exam_error
    /\ UNCHANGED <<ek, exam_chapter_filter, options, final_results, context>>
    /\ UNCHANGED <<rerankVars, retrVars, summaryVars, parserVars>>

ExamMainQuery   == MainQueryStep(SubQueryOutcomes(ek))
ExamOptionQuery == OptionQueryStep(SubQueryOutcomes(OptionK(ek)))

\* lines 232-250: sort, cap, context assembly, return
ExamFinish ==
    /\ epc = "options"
    /\ opt_i = OptionsLen(options)
    /\ final_results' = Truncate(SortByScoreDesc(results_by_id))
    /\ context' = AssembleContext(final_results')
    /\ epc' = "done"
    /\ UNCHANGED <<ek, exam_chapter_filter, options, opt_i, surfaced, results_by_id,
                   exam_error>>
    /\ UNCHANGED <<rerankVars, retrVars, summaryVars, parserVars>>

NextExam ==
    \/ ExamMainQuery
    \/ ExamOptionQuery
    \/ ExamFinish

SpecExam == InitExam /\ [][NextExam]_vars

(* The same procedure over an index whose answers to the option queries share
   single passages with the answer to the main query: an option query ranks
   one of the first passages of the corpus (the pivot) first and a run of
   consecutive passages from further down the corpus after it, or matches
   nothing. *)
Pivots       == {1, 2, 3}
PivotStarts  == {8, 10, 12}
MainStarts   == {1, 6}
OverlapKs    == {3, 7, 8}

PivotHits(p, start, top_k) ==
    <<SearchResult(ChunkNames[p], 97)>> \o
    [i \in 1..Min(top_k - 1, CorpusSize - start + 1) |->
        SearchResult(ChunkNames[start + i - 1], 90 - 5 * (i - 1))]

OverlapMainOutcomes(top_k) ==
    {[kind |-> "hits", hits |-> Hits(start, [top |-> 95, step |-> 5], top_k),
      error |-> "none"] : start \in MainStarts}
    \cup {[kind |-> "hits", hits |-> <<>>, error |-> "none"]}

OverlapOptionOutcomes(top_k) ==
    {[kind |-> "hits", hits |-> PivotHits(p, start, top_k), error |-> "none"] :
        p \in Pivots, start \in PivotStarts}
    \cup {[kind |-> "hits", hits |-> <<>>, error |-> "none"],
          [kind |-> "error", hits |-> <<>>, error |-> "IndexUnavailable"]}

InitOverlap ==
    /\ epc = "main"
    /\ ek \in OverlapKs
    /\ exam_chapter_filter \in ExamChapterFilters
    /\ options \in OptionArgs
    /\ opt_i = 0
    /\ surfaced = <<>> /\ results_by_id = <<>> /\ final_results = <<>> /\ context = <<>>
    /\ exam_error = "none"
    /\ RerankIdle
    /\ RetrIdle
    /\ SummaryIdle
    /\ ParserIdle

OverlapMainQuery   == MainQueryStep(OverlapMainOutcomes(ek))
OverlapOptionQuery == OptionQueryStep(OverlapOptionOutcomes(OptionK(ek)))

NextOverlap ==
    \/ OverlapMainQuery
    \/ OverlapOptionQuery
    \/ ExamFinish

SpecOverlap == InitOverlap /\ [][NextOverlap]_vars

-----------------------------------------------------------------------------
(* Properties of retrieve_for_exam_question *)

ExamReturned == epc = "done"

\* every hit of every sub-query, in query order
RECURSIVE AllHits(_)
AllHits(qs) == IF qs = <<>> THEN <<>> ELSE Head(qs).outcome.hits \o AllHits(Tail(qs))

\* the chunk_ids in a list of results
IdsOf(lst) == {lst[i].chunk_id : i \in 1..Len(lst)}

SurfacedIds == IdsOf(AllHits(surfaced))

\* chunk_ids that more than one sub-query returned
RepeatedIds ==
    {cid \in SurfacedIds :
        Cardinality({q \in 1..Len(surfaced) : cid \in IdsOf(surfaced[q].outcome.hits)}) >= 2}

\* the first result with chunk_id cid in the list all
FirstOccurrenceIn(all, cid) ==
    all[CHOOSE i \in 1..Len(all) :
            all[i].chunk_id = cid /\ \A j \in 1..(i - 1) : all[j].chunk_id # cid]

\* the first result with chunk_id cid in query order
FirstOccurrence(cid) == FirstOccurrenceIn(AllHits(surfaced), cid)

Occurrences(lst, cid) == Cardinality({i \in 1..Len(lst) : lst[i].chunk_id = cid})

\* C9 as stated: a chunk_id that several sub-queries returned is in the
\* returned list exactly once, as its first occurrence in query order.
C9_ExactlyOnceInReturned ==
    ExamReturned =>
        LET all == AllHits(surfaced)
        IN  \A cid \in RepeatedIds :
              /\ Occurrences(final_results, cid) = 1
              /\ \A i \in 1..Len(final_results) :
                    final_results[i].chunk_id = cid =>
                        final_results[i] = FirstOccurrenceIn(all, cid)

\* C9 (amended): a chunk_id that several sub-queries returned is in the
\* deduplicated set exactly once and in the returned list at most once (exactly
\* once when no more than 12 distinct chunk_ids surfaced, so that the cap cuts
\* nothing); the retained result is its first occurrence in query order, score
\* and content as first surfaced.
C9_DedupFirstOccurrenceWins ==
    ExamReturned =>
        LET all      == AllHits(surfaced)
            distinct == Cardinality(IdsOf(all))
        IN  \A cid \in RepeatedIds :
              LET first == FirstOccurrenceIn(all, cid)
              IN  /\ Occurrences(results_by_id, cid) = 1
                  /\ first \in Range(results_by_id)
                  /\ Occurrences(final_results, cid) <= 1
                  /\ distinct <= ResultCap => Occurrences(final_results, cid) = 1
                  /\ \A i \in 1..Len(final_results) :
                        final_results[i].chunk_id = cid => final_results[i] = first

\* a chunk the main query and an option query both returned, with another
\* score in the option query, is returned with the main query's score
C9_Witness ==
    /\ ExamReturned
    /\ \E cid \in RepeatedIds : \E i \in 1..Len(final_results) :
          /\ final_results[i].chunk_id = cid
          /\ final_results[i] = FirstOccurrence(cid)
          /\ \E q \in 2..Len(surfaced) : \E j \in 1..Len(surfaced[q].outcome.hits) :
                /\ surfaced[q].outcome.hits[j].chunk_id = cid
                /\ surfaced[q].outcome.hits[j].score # final_results[i].score

\* C10: retrieve_for_exam_question returns at most 12 results for every k and
\* every number of options, and exactly min(12, number of distinct chunk_ids
\* surfaced by all sub-queries).
C10_AtMostTwelve ==
    ExamReturned =>
        /\ Len(final_results) <= 12
        /\ Len(final_results) = Min(12, Cardinality(SurfacedIds))

C10_Witness ==
    ExamReturned /\ Cardinality(SurfacedIds) > 12 /\ Len(final_results) = 12

-----------------------------------------------------------------------------
(* The size of the merged set (SpecOverlap) *)

\* the hits of sub-query q (1 is the main query)
HitIds(q) == IdsOf(surfaced[q].outcome.hits)

\* the number of results all sub-queries returned together
TotalHits == Len(AllHits(surfaced))

\* a 3-option question whose option queries each returned exactly one chunk_id
\* that the main query also returned, with no other overlap between sub-queries
OneOverlapPerOption ==
    /\ OptionsLen(options) = 3
    /\ Len(surfaced) = 4
    /\ \A q \in 2..4 : Cardinality(HitIds(q) \cap HitIds(1)) = 1
    /\ \A q \in 2..4 : \A r \in 2..4 :
          q # r => (HitIds(q) \cap HitIds(r)) \subseteq HitIds(1)

\* C11 as stated: in that case the returned list has as many results as all
\* sub-queries returned together, less the three overlaps.
C11_SizeIsTotalMinusOverlaps ==
    (ExamReturned /\ OneOverlapPerOption) => Len(final_results) = TotalHits - 3

\* C11 (amended): in that case the deduplicated set has as many results as all
\* sub-queries returned together, less the three overlaps, and the returned
\* list has that many or 12, whichever is less.
C11_MergedSizeThenCap ==
    (ExamReturned /\ OneOverlapPerOption) =>
        /\ Len(results_by_id) = TotalHits - 3
        /\ Len(final_results) = Min(ResultCap, TotalHits - 3)

\* three options with three different overlapping chunk_ids, nothing cut
C11_Witness ==
    /\ ExamReturned /\ OneOverlapPerOption
    /\ Cardinality(HitIds(1) \cap (HitIds(2) \cup HitIds(3) \cup HitIds(4))) = 3
    /\ TotalHits = 12
    /\ Len(final_results) = 9

-----------------------------------------------------------------------------
(* The Qdrant collection behind VectorDBManager (vector_db_manager.py) *)

MaxStored == 4     \* most passages in a collection

\* The chunks of embeddings.json.  The embedding of a chunk is kept as the
\* number of the passage; what it means for a query is Similarity below.
Chunk(i) ==
    [chunk_id       |-> ChunkNames[i],
     content        |-> <<"content of", ChunkNames[i]>>,
     summary        |-> <<"summary of", ChunkNames[i]>>,
     section_header |-> <<"header of", ChunkNames[i]>>,
     metadata       |-> [chapter_num  |-> IF ((i - 1) \div 2) % 2 = 0 THEN "1" ELSE "2",
                         content_type |-> IF i % 2 = 1 THEN "text" ELSE "video"],
     embedding      |-> i]

Chunks(n) == [i \in 1..n |-> Chunk(i)]

\* lines 167-180: the point built for a chunk
PointStruct(point_id, chunk) ==
    [id      |-> point_id,
     vector  |-> chunk.embedding,
     payload |-> [chunk_id       |-> chunk.chunk_id,
                  content        |-> chunk.content,
                  summary        |-> chunk.summary,
                  section_header |-> chunk.section_header,
                  metadata       |-> chunk.metadata]]

\* client.upsert of one point: a point with the same id is replaced where it
\* stands, a new id is added
UpsertOne(points, pt) ==
    IF \E i \in 1..Len(points) : points[i].id = pt.id
    THEN [i \in 1..Len(points) |-> IF points[i].id = pt.id THEN pt ELSE points[i]]
    ELSE Append(points, pt)

RECURSIVE Upsert(_, _)
Upsert(points, pts) ==
    IF pts = <<>> THEN points ELSE Upsert(UpsertOne(points, Head(pts)), Tail(pts))

\* faulty variant: every batch numbers its points from 0
PointId_restart(uploaded, idx) == idx

\* point_id = uploaded + idx
PointId(uploaded, idx) == uploaded + idx

RECURSIVE UploadFrom(_, _, _, _, _)
\* the loop `for i in range(0, total_chunks, batch_size)` from offset i on
UploadFrom(points, chunks, i, uploaded, batch_size) ==
    IF i >= Len(chunks) THEN [points |-> points, uploaded |-> uploaded, upserts |-> <<>>]
    ELSE LET batch == SubSeq(chunks, i + 1, Min(i + batch_size, Len(chunks)))
             pts   == [idx \in 1..Len(batch) |->
                          PointStruct(PointId(uploaded, idx - 1), batch[idx])]
             rest  == UploadFrom(Upsert(points, pts), chunks, i + batch_size,
                                 uploaded + Len(batch), batch_size)
         IN  [rest EXCEPT !.upserts = <<pts>> \o @]

\* upload_embeddings (lines 156-192): the points of the collection afterwards,
\* the number returned and the point lists of the client.upsert calls
UploadEmbeddings(points, chunks, batch_size) ==
    UploadFrom(points, chunks, 0, 0, batch_size)

\* `batch_size: int = 100`, the size upload_embeddings works with when the
\* caller names none
DefaultBatchSize == 100

\* a collection that holds the first n chunks, uploaded in one call
Collection(n) ==
    [exists |-> TRUE, points |-> UploadEmbeddings(<<>>, Chunks(n), DefaultBatchSize).points]

\* the record kept of a call of upload_embeddings: the chunks of its file, its
\* batch_size, the point lists of the upserts the index took, the loop
\* variables i and uploaded, and how far the call is
UploadRecord(chunks, batch_size, state) ==
    [chunks |-> chunks, batch_size |-> batch_size, upserts |-> <<>>,
     i |-> 0, uploaded |-> 0, state |-> state, returned |-> 0]

\* lines 159-180 for the next pass of the loop of call `up`: the chunks of the
\* batch and the points built for them
NextBatch(up) ==
    LET batch == SubSeq(up.chunks, up.i + 1, Min(up.i + up.batch_size, Len(up.chunks)))
    IN  [chunks |-> batch,
         points |-> [idx \in 1..Len(batch) |->
                        PointStruct(PointId(up.uploaded, idx - 1), batch[idx])]]

\* the call after the upsert of batch nb went through (line 189)
Sent(up, nb) ==
    [up EXCEPT !.upserts = Append(@, nb.points),
               !.i = @ + up.batch_size,
               !.uploaded = @ + Len(nb.chunks)]

\* Cosine similarity of a stored vector to the vector of query q, in
\* hundredths: query 1 ranks the passages in the order they were stored,
\* query 2 does not and gives equal scores to some.
Similarity(q, v) == IF q = 1 THEN 100 - 10 * v ELSE 60 + 10 * (v % 3)

\* whether a payload meets one FieldCondition
MeetsCondition(payload, cond) ==
    IF cond.key = "metadata.chapter_num" THEN payload.metadata.chapter_num = cond.value
    ELSE IF cond.key = "metadata.content_type" THEN payload.metadata.content_type = cond.value
    ELSE FALSE

\* whether a payload meets query_filter: None, or Filter(must=conditions)
MeetsFilter(payload, query_filter) ==
    query_filter = None \/
    \A i \in 1..Len(query_filter[1].must) : MeetsCondition(payload, query_filter[1].must[i])

RECURSIVE Select(_, _)
Select(points, query_filter) ==
    IF points = <<>> THEN <<>>
    ELSE IF MeetsFilter(Head(points).payload, query_filter)
         THEN <<Head(points)>> \o Select(Tail(points), query_filter)
         ELSE Select(Tail(points), query_filter)

\* faulty variant: the limit is not applied
SearchLimit_all(lst, limit) == lst

\* `limit=top_k`
SearchLimit(lst, limit) == Take(lst, limit)

\* client.search: the points that meet the filter, scored against the query
\* vector, best first (equal scores in stored order), at most `limit` of them
ClientSearch(points, request) ==
    LET matching == Select(points, request.query_filter)
        scored   == [i \in 1..Len(matching) |->
                        [id      |-> matching[i].id,
                         score   |-> Similarity(request.query_vector, matching[i].vector),
                         payload |-> matching[i].payload]]
    IN  SearchLimit(SortByScoreDesc(scored), request.limit)

\* Python truth value of an Optional[str]
Truthy(v) == v # None /\ v[1] # ""

FieldCondition(key, value) == [key |-> key, value |-> value]

\* lines 213-234: the filter that search builds
BuildFilter(chapter_filter, content_type_filter) ==
    IF Truthy(chapter_filter) \/ Truthy(content_type_filter)
    THEN Some([must |->
            (IF Truthy(chapter_filter)
             THEN <<FieldCondition("metadata.chapter_num", chapter_filter[1])>> ELSE <<>>)
            \o
            (IF Truthy(content_type_filter)
             THEN <<FieldCondition("metadata.content_type", content_type_filter[1])>> ELSE <<>>)])
    ELSE None

\* lines 236-242: the request handed to client.search
SearchRequest(query_vector, top_k, chapter_filter, content_type_filter) ==
    [query_vector |-> query_vector,
     limit        |-> top_k,
     query_filter |-> BuildFilter(chapter_filter, content_type_filter)]

\* What client.search does with a request: a server that cannot be reached and
\* a store without the collection make it raise, otherwise it answers.
ClientAnswer(which, up, store, request) ==
    IF which = "server" /\ ~up THEN [kind |-> "unavailable", hits |-> <<>>]
    ELSE IF ~store.exists THEN [kind |-> "not_found", hits |-> <<>>]
    ELSE [kind |-> "hits", hits |-> ClientSearch(store.points, request)]

\* The answers client.search can give.  What the index does with a limit
\* below 1 is not fixed by this program: it answers with no hits or refuses
\* the request.
ClientAnswers(which, up, store, request) ==
    (IF request.limit <= 0 /\ (which = "memory" \/ up) /\ store.exists
     THEN {[kind |-> "hits", hits |-> <<>>], [kind |-> "bad_request", hits |-> <<>>]}
     ELSE {ClientAnswer(which, up, store, request)})
    \cup (IF which = "server" THEN {[kind |-> "unavailable", hits |-> <<>>]} ELSE {})

\* How a call of the index client that only changes or lists collections
\* ends: an in-memory client answers; the server answers, or raises when it is
\* down or the connection fails this once.
CallAnswers(which, up) ==
    IF which = "memory" THEN {"ok"} ELSE IF up THEN {"ok", "error"} ELSE {"error"}

\* the exception that reaches the caller of search for an answer without hits
SearchError(answer) ==
    IF answer.kind = "unavailable" THEN "IndexUnavailable"
    ELSE IF answer.kind = "not_found" THEN "CollectionNotFound"
    ELSE "IndexBadRequest"

\* lines 245-255: one SearchResult per scored point
ToSearchResults(hits) ==
    [i \in 1..Len(hits) |->
        [chunk_id       |-> hits[i].payload.chunk_id,
         content        |-> hits[i].payload.content,
         summary        |-> hits[i].payload.summary,
         section_header |-> hits[i].payload.section_header,
         score          |-> hits[i].score,
         metadata       |-> hits[i].payload.metadata]]

-----------------------------------------------------------------------------
(* RAGRetriever: construction, retrieve_level_two, retrieve_with_scores,
   retrieve_with_reranking (rag_retriever.py 20-176 and 252-309) *)

\* one block of retrieve_level_two (135-139)
LevelTwoBlock(r) ==
    <<"\n<document>\n">>
    \o r.section_header \o <<"\n\n">>
    \o <<"Text:\n">> \o r.content \o <<"\n\n">>
    \o <<"Summary:\n">> \o r.summary \o <<"\n">>
    \o <<"</document>\n">>

RECURSIVE LevelTwoContext(_)
\* the loop of lines 133-139
LevelTwoContext(lst) ==
    IF lst = <<>> THEN <<>> ELSE LevelTwoBlock(Head(lst)) \o LevelTwoContext(Tail(lst))

\* faulty variant: the block of the reranking path leaves the summary out
RerankedBlock_nosummary(r) ==
    <<"\n<document>\n">>
    \o r.section_header \o <<"\n\n">>
    \o <<"Text:\n">> \o r.content \o <<"\n\n">>
    \o <<"</document>\n">>

\* one block of retrieve_with_reranking (303-307)
RerankedBlock(r) ==
    <<"\n<document>\n">>
    \o r.section_header \o <<"\n\n">>
    \o <<"Text:\n">> \o r.content \o <<"\n\n">>
    \o <<"Summary:\n">> \o r.summary \o <<"\n">>
    \o <<"</document>\n">>

RECURSIVE RerankedContext(_)
\* the loop of lines 301-307
RerankedContext(lst) ==
    IF lst = <<>> THEN <<>> ELSE RerankedBlock(Head(lst)) \o RerankedContext(Tail(lst))

\* faulty variant: the empty candidate list is not returned early
NoCandidates_never(lst) == FALSE

\* `if len(initial_results) == 0`
NoCandidates(lst) == Len(lst) = 0

\* faulty variant: embed_query swallows the error and returns no vector
EmbedExcept_swallow(q) == [raised |-> FALSE, vector |-> 0]

\* embed_query, `except Exception as e: print(...); raise`
EmbedExcept(q) == [raised |-> TRUE, vector |-> 0]

\* embed_query, `return response.data[0].embedding`: the vector of query q
EmbedReturn(q) == [raised |-> FALSE, vector |-> q]

\* retrieve_with_scores, lines 164-174: the results whose score reaches
\* score_threshold, in the order of the search
AboveThreshold(lst, score_threshold) ==
    SelectSeq(lst, LAMBDA r : r.score >= score_threshold)

Entries        == {"retrieve_level_two", "retrieve_with_reranking", "retrieve_with_scores"}
Queries        == {1, 2}
ChapterFilters == {None, Some(""), Some("1"), Some("9")}
TypeFilters    == {None, Some(""), Some("video")}
InitialKs      == {2, 40}
\* score_threshold of retrieve_with_scores, in hundredths (its default is 0.0)
ScoreThresholds == {0, 75}

\* what the judgment model answers in these runs
JudgeOutcomes ==
    {[kind |-> "text", tokens |-> ts, text |-> JoinTokens(ts)] :
        ts \in {<<<<"1">>, <<"0">>>>, <<<<"2">>>>, <<NotAList>>}}
    \cup {[kind |-> "error", tokens |-> <<>>, text |-> <<>>]}

InitRetrieve ==
    /\ rpc = "connect"
    /\ entry \in Entries
    /\ \E q \in Queries, kk \in 1..MaxK, ik \in InitialKs,
          ch \in ChapterFilters, ct \in TypeFilters, th \in ScoreThresholds :
          /\ entry # "retrieve_with_reranking" => ik = 40
          /\ entry # "retrieve_with_scores" => th = 0
          /\ entry = "retrieve_with_scores" => ch = None /\ ct = None
          /\ rargs = [via |-> "direct", query |-> q, k |-> kk, initial_k |-> ik,
                      chapter_filter |-> ch, content_type_filter |-> ct,
                      score_threshold |-> th]
    /\ server_up \in BOOLEAN
    /\ embeddings_file \in BOOLEAN
    /\ client = "none"
    /\ \E store \in {NoCollection} \cup {Collection(n) : n \in 0..MaxStored} :
          stores = [server |-> store, memory |-> NoCollection]
    /\ uploads = <<>> /\ embed_calls = <<>> /\ index_calls = <<>>
    /\ initial_results = <<>> /\ rresults = <<>> /\ rcontext = <<>> /\ rerror = "none"
    /\ RerankIdle
    /\ ExamIdle
    /\ SummaryIdle
    /\ ParserIdle

\* RAGRetriever.__init__ up to the index client (36-47): without
\* OPENAI_API_KEY it raises ValueError and no retriever exists; with it,
\* VectorDBManager.__init__ (58-72, use_memory is False) takes the server if
\* get_collections() succeeds, else a fresh in-memory client.  The argument
\* auto_load_embeddings decides whether lines 50-69 run.
Connect ==
    /\ rpc = "connect"
    /\ \E api_key \in BOOLEAN, auto_load_embeddings \in BOOLEAN,
          answer \in CallAnswers("server", server_up) :
          IF ~api_key
          THEN /\ answer = "error"
               /\ rpc' = "no_retriever"
               /\ rerror' = "RetrieverValueError"
               /\ UNCHANGED client
          ELSE /\ client' = IF answer = "ok" THEN "server" ELSE "memory"
               /\ rpc' = IF auto_load_embeddings THEN "autoload" ELSE "ready"
               /\ rerror' = rerror
    /\ UNCHANGED <<entry, rargs, server_up, embeddings_file, stores, uploads, embed_calls,
                   index_calls, initial_results, rresults, rcontext>>
    /\ UNCHANGED <<rerankVars, examVars, summaryVars, parserVars>>

(* RAGRetriever.__init__ 50-69, one step per call of the index client.  What
   a call raises is printed and dropped, at 68-69 for the first
   get_collections and at 63-64 for create_collection and upload_embeddings,
   and the constructor goes on to its end with the store as it is then. *)

\* the positions of the constructor inside lines 50-69
AutoLoadSteps ==
    {"autoload", "create_check", "create", "index_1", "index_2", "index_3", "read", "upsert"}

\* lines 52-59: get_collections; a missing collection is created and filled
\* from embeddings.json if that file exists
AutoLoad ==
    /\ rpc = "autoload"
    /\ \E answer \in CallAnswers(client, server_up) :
          rpc' = IF answer = "error" THEN "ready"
                 ELSE IF stores[client].exists \/ ~embeddings_file THEN "ready"
                 ELSE "create_check"
    /\ UNCHANGED <<entry, rargs, server_up, embeddings_file, client, stores, uploads,
                   embed_calls, index_calls, initial_results, rresults, rcontext, rerror>>
    /\ UNCHANGED <<rerankVars, examVars, summaryVars, parserVars>>

\* create_collection(recreate=False), lines 82-90: get_collections; a
\* collection that exists is left as it is and the upload comes next
AutoLoadCreateCheck ==
    /\ rpc = "create_check"
    /\ \E answer \in CallAnswers(client, server_up) :
          rpc' = IF answer = "error" THEN "ready"
                 ELSE IF stores[client].exists THEN "read"
                 ELSE "create"
    /\ UNCHANGED <<entry, rargs, server_up, embeddings_file, client, stores, uploads,
                   embed_calls, index_calls, initial_results, rresults, rcontext, rerror>>
    /\ UNCHANGED <<rerankVars, examVars, summaryVars, parserVars>>

\* create_collection, line 95: client.create_collection
AutoLoadCreate ==
    /\ rpc = "create"
    /\ \E answer \in CallAnswers(client, server_up) :
          IF answer = "error"
          THEN rpc' = "ready" /\ UNCHANGED stores
          ELSE /\ rpc' = "index_1"
               /\ stores' = [stores EXCEPT ![client] = [exists |-> TRUE, points |-> <<>>]]
    /\ UNCHANGED <<entry, rargs, server_up, embeddings_file, client, uploads,
                   embed_calls, index_calls, initial_results, rresults, rcontext, rerror>>
    /\ UNCHANGED <<rerankVars, examVars, summaryVars, parserVars>>

\* create_collection, lines 107, 114 and 121: the three create_payload_index
\* calls, then upload_embeddings
AutoLoadIndex ==
    /\ rpc \in {"index_1", "index_2", "index_3"}
    /\ \E answer \in CallAnswers(client, server_up) :
          rpc' = IF answer = "error" THEN "ready"
                 ELSE IF rpc = "index_1" THEN "index_2"
                 ELSE IF rpc = "index_2" THEN "index_3"
                 ELSE "read"
    /\ UNCHANGED <<entry, rargs, server_up, embeddings_file, client, stores, uploads,
                   embed_calls, index_calls, initial_results, rresults, rcontext, rerror>>
    /\ UNCHANGED <<rerankVars, examVars, summaryVars, parserVars>>

\* upload_embeddings(embeddings_file) with the default batch_size, lines
\* 144-158: the file is read; a file that cannot be used raises before any
\* chunk is known
AutoLoadRead ==
    /\ rpc = "read"
    /\ \E usable \in BOOLEAN :
          IF ~usable
          THEN /\ uploads' = Append(uploads, UploadRecord(<<>>, DefaultBatchSize, "raised"))
               /\ rpc' = "ready"
          ELSE /\ uploads' = Append(uploads, UploadRecord(Chunks(MaxStored), DefaultBatchSize,
                                                          "running"))
               /\ rpc' = "upsert"
    /\ UNCHANGED <<entry, rargs, server_up, embeddings_file, client, stores,
                   embed_calls, index_calls, initial_results, rresults, rcontext, rerror>>
    /\ UNCHANGED <<rerankVars, examVars, summaryVars, parserVars>>

\* upload_embeddings, lines 158-192: one client.upsert per pass, and the
\* return after the last one
AutoLoadUpsert ==
    /\ rpc = "upsert"
    /\ LET u  == Len(uploads)
           up == uploads[u]
           nb == NextBatch(up)
       IN  \E answer \in CallAnswers(client, server_up) :
              IF answer = "error" \/ ~stores[client].exists
              THEN /\ uploads' = [uploads EXCEPT ![u].state = "raised"]
                   /\ rpc' = "ready"
                   /\ UNCHANGED stores
              ELSE LET after == Sent(up, nb)
                   IN  /\ stores' = [stores EXCEPT ![client].points = Upsert(@, nb.points)]
                       /\ IF after.i >= Len(after.chunks)
                          THEN /\ uploads' = [uploads EXCEPT ![u] =
                                                 [after EXCEPT !.state = "returned",
                                                               !.returned = after.uploaded]]
                               /\ rpc' = "ready"
                          ELSE /\ uploads' = [uploads EXCEPT ![u] = after]
                               /\ rpc' = "upsert"
    /\ UNCHANGED <<entry, rargs, server_up, embeddings_file, client,
                   embed_calls, index_calls, initial_results, rresults, rcontext, rerror>>
    /\ UNCHANGED <<rerankVars, examVars, summaryVars, parserVars>>

\* the server goes away after the client was made: between two calls of
\* lines 50-69 or between the construction and the retrieval call
Outage ==
    /\ rpc \in AutoLoadSteps \cup {"ready"}
    /\ server_up
    /\ server_up' = FALSE
    /\ UNCHANGED <<rpc, entry, rargs, embeddings_file, client, stores, uploads, embed_calls,
                   index_calls, initial_results, rresults, rcontext, rerror>>
    /\ UNCHANGED <<rerankVars, examVars, summaryVars, parserVars>>

\* line 122 / 281: embed_query
EmbedQuery ==
    /\ rpc = "ready"
    /\ \E provider \in {"ok", "error"} :
          LET out == IF provider = "ok" THEN EmbedReturn(rargs.query)
                     ELSE EmbedExcept(rargs.query)
          IN  /\ embed_calls' = Append(embed_calls, provider)
              /\ IF out.raised
                 THEN rpc' = "raised" /\ rerror' = "EmbeddingError" /\ UNCHANGED rargs
                 ELSE rpc' = "search" /\ rerror' = rerror
                      /\ rargs' = [rargs EXCEPT !.query = out.vector]
    /\ UNCHANGED <<entry, server_up, embeddings_file, client, stores, uploads,
                   index_calls, initial_results, rresults, rcontext>>
    /\ UNCHANGED <<rerankVars, examVars, summaryVars, parserVars>>

\* retrieve_level_two, lines 125-141: search, context, return
LevelTwoSearch ==
    /\ rpc = "search"
    /\ entry = "retrieve_level_two"
    /\ LET request == SearchRequest(rargs.query, rargs.k,
                                    rargs.chapter_filter, rargs.content_type_filter)
       IN  \E answer \in ClientAnswers(client, server_up, stores[client], request) :
           /\ index_calls' = Append(index_calls, [request |-> request, answer |-> answer])
           /\ IF answer.kind = "hits"
              THEN /\ rresults' = ToSearchResults(answer.hits)
                   /\ rcontext' = LevelTwoContext(rresults')
                   /\ rpc' = "done"
                   /\ rerror' = rerror
              ELSE /\ rpc' = "raised"
                   /\ rerror' = SearchError(answer)
                   /\ UNCHANGED <<rresults, rcontext>>
    /\ UNCHANGED <<entry, rargs, server_up, embeddings_file, client, stores, uploads,
                   embed_calls, initial_results>>
    /\ UNCHANGED <<rerankVars, examVars, summaryVars, parserVars>>

\* retrieve_with_scores, lines 160-176: search for k with no filter, keep the
\* results that reach score_threshold, return them without a context
ScoresSearch ==
    /\ rpc = "search"
    /\ entry = "retrieve_with_scores"
    /\ LET request == SearchRequest(rargs.query, rargs.k, None, None)
       IN  \E answer \in ClientAnswers(client, server_up, stores[client], request) :
           /\ index_calls' = Append(index_calls, [request |-> request, answer |-> answer])
           /\ IF answer.kind = "hits"
              THEN /\ rresults' = AboveThreshold(ToSearchResults(answer.hits),
                                                 rargs.score_threshold)
                   /\ rpc' = "done"
                   /\ rerror' = rerror
              ELSE /\ rpc' = "raised"
                   /\ rerror' = SearchError(answer)
                   /\ UNCHANGED rresults
    /\ UNCHANGED <<entry, rargs, server_up, embeddings_file, client, stores, uploads,
                   embed_calls, initial_results, rcontext>>
    /\ UNCHANGED <<rerankVars, examVars, summaryVars, parserVars>>

\* retrieve_with_reranking, lines 282-290: search, early return on no candidates
RerankingSearch ==
    /\ rpc = "search"
    /\ entry = "retrieve_with_reranking"
    /\ LET request == SearchRequest(rargs.query, rargs.initial_k,
                                    rargs.chapter_filter, rargs.content_type_filter)
       IN  \E answer \in ClientAnswers(client, server_up, stores[client], request) :
           /\ index_calls' = Append(index_calls, [request |-> request, answer |-> answer])
           /\ IF answer.kind = "hits"
              THEN /\ initial_results' = ToSearchResults(answer.hits)
                   /\ rpc' = IF NoCandidates(initial_results') THEN "done" ELSE "reranker"
                   /\ rerror' = rerror
              ELSE /\ rpc' = "raised"
                   /\ rerror' = SearchError(answer)
                   /\ UNCHANGED initial_results
    /\ UNCHANGED <<entry, rargs, server_up, embeddings_file, client, stores, uploads,
                   embed_calls, rresults, rcontext>>
    /\ UNCHANGED <<rerankVars, examVars, summaryVars, parserVars>>

\* line 293 and LLMReranker.__init__ (26-28): without GOOGLE_API_KEY the
\* constructor raises ValueError, which nothing in retrieve_with_reranking
\* catches; with it, rerank is called on the candidates (294-298)
NewReranker ==
    /\ rpc = "reranker"
    /\ \E api_key \in BOOLEAN :
          IF ~api_key
          THEN /\ rpc' = "raised"
               /\ rerror' = "RerankerValueError"
               /\ UNCHANGED rerankVars
          ELSE /\ rpc' = "reranking"
               /\ rerror' = rerror
               /\ heap' = initial_results
               /\ given' = initial_results
               /\ results' = [i \in 1..Len(initial_results) |-> i]
               /\ k' = rargs.k
               /\ pc' = "start"
               /\ UNCHANGED <<response, calls, relevant_indices, reranked, ret>>
    /\ UNCHANGED <<entry, rargs, server_up, embeddings_file, client, stores, uploads,
                   embed_calls, index_calls, initial_results, rresults, rcontext>>
    /\ UNCHANGED <<examVars, summaryVars, parserVars>>

RetrieveJudge == JudgeStep(JudgeOutcomes)

\* lines 300-309: context of the reranked results, return
RerankingFinish ==
    /\ rpc = "reranking"
    /\ pc \in {"done", "raised"}
    /\ IF pc = "done"
       THEN /\ rresults' = [i \in 1..Len(ret) |-> heap[ret[i]]]
            /\ rcontext' = RerankedContext(rresults')
            /\ rpc' = "done"
            /\ rerror' = rerror
       ELSE /\ rpc' = "raised"
            /\ rerror' = "RerankError"
            /\ UNCHANGED <<rresults, rcontext>>
    /\ UNCHANGED <<entry, rargs, server_up, embeddings_file, client, stores, uploads,
                   embed_calls, index_calls, initial_results>>
    /\ UNCHANGED <<rerankVars, examVars, summaryVars, parserVars>>

NextRetrieve ==
    \/ Connect
    \/ AutoLoad
    \/ AutoLoadCreateCheck
    \/ AutoLoadCreate
    \/ AutoLoadIndex
    \/ AutoLoadRead
    \/ AutoLoadUpsert
    \/ Outage
    \/ EmbedQuery
    \/ LevelTwoSearch
    \/ ScoresSearch
    \/ RerankingSearch
    \/ NewReranker
    \/ RerankEarlyReturn
    \/ RetrieveJudge
    \/ RerankPadPass
    \/ RerankReturn
    \/ RerankingFinish

SpecRetrieve == InitRetrieve /\ [][NextRetrieve]_vars

-----------------------------------------------------------------------------
(* Properties of retrieve_level_two and retrieve_with_reranking *)

LevelTwoReturned  == entry = "retrieve_level_two" /\ rpc = "done"
RerankingReturned == entry = "retrieve_with_reranking" /\ rpc = "done"

\* where the <document> blocks of a context open
BlockStarts(text) == {i \in 1..Len(text) : text[i] = "\n<document>\n"}

\* where the n-th block opens
NthStart(text, n) ==
    CHOOSE p \in BlockStarts(text) : Cardinality({q \in BlockStarts(text) : q <= p}) = n

\* the text right after position p starts with the pieces of field
Follows(text, p, field) ==
    /\ p + Len(field) <= Len(text)
    /\ SubSeq(text, p + 1, p + Len(field)) = field

\* C12: retrieve_level_two returns the at most k results of the index search
\* in the order the index gave them, scores descending, with a context of
\* exactly one <document> block per returned result in the same order.
C12_LevelTwoTopKInIndexOrder ==
    LevelTwoReturned =>
        LET hits == index_calls[Len(index_calls)].answer.hits
        IN  /\ Len(index_calls) = 1
            /\ index_calls[1].request.limit = rargs.k
            /\ Len(rresults) <= rargs.k
            /\ Len(rresults) = Len(hits)
            /\ \A i \in 1..Len(rresults) :
                  /\ rresults[i].chunk_id = hits[i].payload.chunk_id
                  /\ rresults[i].score = hits[i].score
            /\ \A i \in 1..(Len(rresults) - 1) : rresults[i].score >= rresults[i + 1].score
            /\ Cardinality(BlockStarts(rcontext)) = Len(rresults)
            /\ \A i \in 1..Len(rresults) :
                  Follows(rcontext, NthStart(rcontext, i), rresults[i].section_header)

\* the scenario of the specification: A 0.9, B 0.8, C 0.7 stored, k = 2 and no
\* filter give [A, B] and two blocks, A's first
C12_Witness ==
    /\ LevelTwoReturned
    /\ Len(stores.server.points) = 3 /\ client = "server"
    /\ rargs.k = 2 /\ rargs.chapter_filter = None /\ rargs.content_type_filter = None
    /\ Len(rresults) = 2
    /\ rresults[1].chunk_id = "A" /\ rresults[1].score = 90
    /\ rresults[2].chunk_id = "B" /\ rresults[2].score = 80
    /\ Cardinality(BlockStarts(rcontext)) = 2
    /\ Follows(rcontext, 1, <<"header of", "A">>)
    /\ Follows(rcontext, NthStart(rcontext, 2), <<"header of", "B">>)

-----------------------------------------------------------------------------
(* Context assembly as a function of the result list (rag_retriever.py 132-141) *)

MaxBlocks == 2     \* longest result list handed to the assembly

\* Texts a passage field can hold, as sequences of pieces of text.  Study
\* material has headings and blank lines of its own, so a field can hold the
\* pieces the block format is made of.
HeaderTexts  == {<<"h">>, <<"h", "\n\n", "Text:\n", "t">>}
ContentTexts == {<<"x">>, <<>>, <<"x", "\n\n", "Summary:\n", "y">>}
SummaryTexts == {<<"z">>, <<"z", "\n", "</document>\n", "\n<document>\n", "w">>}

FieldResults ==
    {[chunk_id       |-> "A",
      content        |-> c,
      summary        |-> sm,
      section_header |-> h,
      score          |-> 90,
      metadata       |-> [chapter_num |-> "1", content_type |-> "text"]] :
        h \in HeaderTexts, c \in ContentTexts, sm \in SummaryTexts}

InitContext ==
    /\ rpc = "assemble"
    /\ rresults \in SeqsUpTo(FieldResults, MaxBlocks)
    /\ entry = "none" /\ rargs = NoArgs
    /\ server_up = FALSE /\ embeddings_file = FALSE /\ client = "none"
    /\ stores = [server |-> NoCollection, memory |-> NoCollection]
    /\ uploads = <<>> /\ embed_calls = <<>> /\ index_calls = <<>>
    /\ initial_results = <<>> /\ rcontext = <<>> /\ rerror = "none"
    /\ RerankIdle
    /\ ExamIdle
    /\ SummaryIdle
    /\ ParserIdle

\* lines 133-139 applied to the list
AssembleContextOf ==
    /\ rpc = "assemble"
    /\ rcontext' = LevelTwoContext(rresults)
    /\ rpc' = "done"
    /\ UNCHANGED <<entry, rargs, server_up, embeddings_file, client, stores, uploads,
                   embed_calls, index_calls, initial_results, rresults, rerror>>
    /\ UNCHANGED <<rerankVars, examVars, summaryVars, parserVars>>

NextContext == AssembleContextOf

SpecContext == InitContext /\ [][NextContext]_vars

ContextAssembled == entry = "none" /\ rpc = "done"

\* the first position from `from` on where piece a is followed by piece b,
\* 0 if there is none
FindPair(text, from, a, b) ==
    LET ps == {p \in from..(Len(text) - 1) : text[p] = a /\ text[p + 1] = b}
    IN  IF ps = {} THEN 0 ELSE CHOOSE p \in ps : \A q \in ps : p <= q

ParseFailed == [ok |-> FALSE, triples |-> <<>>]

RECURSIVE ParseContext(_)
\* a context split on its fixed delimiters: after "\n<document>\n" the header
\* up to "\n\nText:\n", the content up to "\n\nSummary:\n", the summary up
\* to "\n</document>\n", then the next block
ParseContext(text) ==
    IF text = <<>> THEN [ok |-> TRUE, triples |-> <<>>]
    ELSE IF Head(text) # "\n<document>\n" THEN ParseFailed
    ELSE LET t == FindPair(text, 2, "\n\n", "Text:\n")
         IN  IF t = 0 THEN ParseFailed
             ELSE LET sm == FindPair(text, t + 2, "\n\n", "Summary:\n")
                  IN  IF sm = 0 THEN ParseFailed
                      ELSE LET c == FindPair(text, sm + 2, "\n", "</document>\n")
                           IN  IF c = 0 THEN ParseFailed
                               ELSE LET rest == ParseContext(SubSeq(text, c + 2, Len(text)))
                                    IN  [ok      |-> rest.ok,
                                         triples |-> <<[section_header |-> SubSeq(text, 2, t - 1),
                                                        content        |-> SubSeq(text, t + 2, sm - 1),
                                                        summary        |-> SubSeq(text, sm + 2, c - 1)]>>
                                                     \o rest.triples]

TriplesOf(lst) ==
    [i \in 1..Len(lst) |-> [section_header |-> lst[i].section_header,
                            content        |-> lst[i].content,
                            summary        |-> lst[i].summary]]

\* C13: splitting the assembled context on the fixed delimiters recovers the
\* (section_header, content, summary) triple of every result, in the original
\* order, whatever text the fields contain.
C13_ContextRoundTrip ==
    ContextAssembled =>
        LET parsed == ParseContext(rcontext)
        IN  parsed.ok /\ parsed.triples = TriplesOf(rresults)

\* the round trip for fields that hold none of the pieces of the format
PlainFields ==
    \A i \in 1..Len(rresults) :
        /\ rresults[i].section_header = <<"h">>
        /\ rresults[i].content \in {<<"x">>, <<>>}
        /\ rresults[i].summary = <<"z">>

RoundTripOfPlainFields ==
    (ContextAssembled /\ PlainFields) =>
        LET parsed == ParseContext(rcontext)
        IN  parsed.ok /\ parsed.triples = TriplesOf(rresults)

-----------------------------------------------------------------------------
(* The three entry points together *)

InitEntryPoints == InitRetrieve \/ InitOverlap

NextEntryPoints ==
    \/ Connect
    \/ AutoLoad
    \/ AutoLoadCreateCheck
    \/ AutoLoadCreate
    \/ AutoLoadIndex
    \/ AutoLoadRead
    \/ AutoLoadUpsert
    \/ Outage
    \/ EmbedQuery
    \/ LevelTwoSearch
    \/ ScoresSearch
    \/ RerankingSearch
    \/ NewReranker
    \/ RerankEarlyReturn
    \/ RetrieveJudge
    \/ RerankPadPass
    \/ RerankReturn
    \/ RerankingFinish
    \/ OverlapMainQuery
    \/ OverlapOptionQuery
    \/ ExamFinish

SpecEntryPoints == InitEntryPoints /\ [][NextEntryPoints]_vars

\* the block format of the interface: section_header, "Text:", the full
\* content, "Summary:", the summary, between <document> and </document>
FormatBlock(r) ==
    <<"\n<document>\n">> \o r.section_header
    \o <<"\n\n", "Text:\n">> \o r.content
    \o <<"\n\n", "Summary:\n">> \o r.summary
    \o <<"\n", "</document>\n">>

RECURSIVE FormatContext(_)
\* one block per result in list order, nothing between the blocks
FormatContext(lst) ==
    IF lst = <<>> THEN <<>> ELSE FormatBlock(Head(lst)) \o FormatContext(Tail(lst))

\* the three assembly sites give the same text for the list lst
SitesAgreeOn(lst) ==
    /\ LevelTwoContext(lst) = AssembleContext(lst)
    /\ RerankedContext(lst) = AssembleContext(lst)

\* C14: retrieve_level_two, retrieve_for_exam_question and
\* retrieve_with_reranking produce the same text for the same result list: one
\* block per result in list order with section_header, the full content and
\* the summary, nothing added between blocks, and the context each call
\* returns covers exactly the results it returns.
C14_SameContextAtAllSites ==
    /\ (LevelTwoReturned \/ RerankingReturned) =>
          /\ rcontext = FormatContext(rresults)
          /\ SitesAgreeOn(rresults)
    /\ ExamReturned =>
          /\ context = FormatContext(final_results)
          /\ SitesAgreeOn(final_results)

\* the reranking path returned two results the judgment model picked
C14_Witness ==
    /\ RerankingReturned
    /\ response.kind = "text" /\ relevant_indices = <<1, 0>>
    /\ Len(rresults) = 2
    /\ rcontext = FormatBlock(initial_results[2]) \o FormatBlock(initial_results[1])

\* the index search of retrieve_level_two / retrieve_with_reranking was
\* answered and matched no passage
RetrievalMatchedNothing ==
    /\ Len(index_calls) = 1
    /\ index_calls[1].answer.kind = "hits"
    /\ index_calls[1].answer.hits = <<>>

\* every sub-query of retrieve_for_exam_question was answered and matched no
\* passage
ExamMatchedNothing ==
    /\ Len(surfaced) = 1 + OptionsLen(options)
    /\ \A q \in 1..Len(surfaced) :
          surfaced[q].outcome.kind = "hits" /\ surfaced[q].outcome.hits = <<>>

\* C15: when the index search matches zero passages, retrieve_level_two,
\* retrieve_with_reranking and retrieve_for_exam_question return the empty
\* list with the empty context string and raise no error, and
\* retrieve_with_reranking makes no judgment-model call (it does not even
\* enter rerank).
C15_ZeroMatchesEmptyResult ==
    /\ RetrievalMatchedNothing =>
          /\ rpc = "done" /\ rerror = "none"
          /\ rresults = <<>> /\ rcontext = <<>>
          /\ calls = 0 /\ pc = "idle"
    /\ ExamMatchedNothing =>
          /\ epc \in {"options", "done"}
          /\ epc = "options" => opt_i = OptionsLen(options)
          /\ epc = "done" => final_results = <<>> /\ context = <<>>

\* a filter that no stored passage meets, on the reranking path
C15_Witness ==
    /\ RerankingReturned
    /\ RetrievalMatchedNothing
    /\ Len(stores[client].points) > 0
    /\ rargs.chapter_filter = Some("9")
    /\ rresults = <<>> /\ rcontext = <<>>

\* three options and four sub-queries that matched nothing
ExamEmptyReached ==
    ExamReturned /\ ExamMatchedNothing /\ OptionsLen(options) = 3 /\ final_results = <<>>

\* the embedding provider failed on a call of this retrieval
EmbeddingFailed == \E i \in 1..Len(embed_calls) : embed_calls[i] = "error"

\* C16: a failure of the query-embedding call reaches the caller of
\* retrieve_level_two / retrieve_with_reranking as an error, with exactly one
\* embedding attempt in the retrieval and no index search afterwards.
C16_EmbeddingFailurePropagates ==
    /\ Len(embed_calls) <= 1
    /\ EmbeddingFailed =>
          /\ rpc = "raised" /\ rerror = "EmbeddingError"
          /\ Len(embed_calls) = 1
          /\ index_calls = <<>>
          /\ rresults = <<>> /\ rcontext = <<>>
          /\ pc = "idle"

\* the failure on the reranking path, with a reachable store that holds
\* passages
C16_Witness ==
    /\ entry = "retrieve_with_reranking"
    /\ EmbeddingFailed /\ rpc = "raised"
    /\ client = "server" /\ server_up /\ Len(stores.server.points) > 0
    /\ index_calls = <<>>

\* the embedding call and the index search of the retrieval both succeeded
EmbeddedAndSearched ==
    /\ Len(embed_calls) = 1 /\ embed_calls[1] = "ok"
    /\ Len(index_calls) = 1 /\ index_calls[1].answer.kind = "hits"

\* C17: a failure on the reranking path never becomes a failure of
\* retrieve_with_reranking: whenever the embedding call and the index search
\* succeed the call does not raise, also when the reranker cannot be
\* constructed or its model call fails.
C17_RerankingFailureNeverRaises ==
    (entry = "retrieve_with_reranking" /\ EmbeddedAndSearched) => rpc # "raised"

\* a failing model call is recovered: the call returns the first k candidates
ModelCallFailureDegrades ==
    (RerankingReturned /\ response.kind = "error") =>
        rresults = Take(initial_results, rargs.k)

ModelCallFailureReached ==
    RerankingReturned /\ response.kind = "error" /\ Len(rresults) = 2

\* C18: when the vector store cannot be reached the retrieval fails with an
\* index-unavailable error that reaches the caller, and a retrieval is never
\* answered from another store than the configured server.
C18_UnreachableStoreRaises ==
    /\ (index_calls # <<>> /\ ~server_up) =>
          rpc = "raised" /\ rerror = "IndexUnavailable"
    /\ rpc = "done" => client = "server"

\* an outage after the construction does reach the caller
OutageRaises ==
    (index_calls # <<>> /\ client = "server" /\ ~server_up) =>
        rpc = "raised" /\ rerror = "IndexUnavailable"

OutageReached ==
    index_calls # <<>> /\ client = "server" /\ ~server_up /\ rpc = "raised"

\* the predicates of a filter that are present (not None), chapter first
PresentConditions(chapter_filter, content_type_filter) ==
    (IF chapter_filter # None
     THEN <<[key |-> "metadata.chapter_num", value |-> chapter_filter[1]]>> ELSE <<>>)
    \o
    (IF content_type_filter # None
     THEN <<[key |-> "metadata.content_type", value |-> content_type_filter[1]]>> ELSE <<>>)

\* payload meets every condition of conds
MeetsAll(payload, conds) ==
    \A i \in 1..Len(conds) :
        IF conds[i].key = "metadata.chapter_num"
        THEN payload.metadata.chapter_num = conds[i].value
        ELSE payload.metadata.content_type = conds[i].value

\* the request and the answer of an index call are those of the conjunction
\* conds
AsksFor(call, conds, stored) ==
    /\ IF conds = <<>> THEN call.request.query_filter = None
       ELSE /\ call.request.query_filter # None
            /\ Range(call.request.query_filter[1].must) = Range(conds)
    /\ call.answer.kind = "hits" =>
          /\ \A i \in 1..Len(call.answer.hits) : MeetsAll(call.answer.hits[i].payload, conds)
          /\ Len(call.answer.hits) =
                Min(call.request.limit,
                    Cardinality({j \in 1..Len(stored) : MeetsAll(stored[j].payload, conds)}))

\* C19: for every combination of chapter_filter and content_type_filter, each
\* present or absent, search asks the index for the conjunction of exactly the
\* present predicates: every returned result meets all of them, no matching
\* passage is kept out, and with none present the search is unfiltered.
C19_FilterIsConjunctionOfPresent ==
    \A i \in 1..Len(index_calls) :
        AsksFor(index_calls[i],
                PresentConditions(rargs.chapter_filter, rargs.content_type_filter),
                stores[client].points)

\* the same for filters whose present values are not the empty string
NoEmptyFilterValue ==
    rargs.chapter_filter # Some("") /\ rargs.content_type_filter # Some("")

FilterOfNonEmptyValues ==
    NoEmptyFilterValue => C19_FilterIsConjunctionOfPresent

FilterOfNonEmptyValuesReached ==
    /\ LevelTwoReturned
    /\ rargs.chapter_filter = Some("1") /\ rargs.content_type_filter = Some("video")
    /\ Len(stores[client].points) = 4
    /\ Len(rresults) = 1 /\ rresults[1].chunk_id = "B"

-----------------------------------------------------------------------------
(* Sequences of upload_embeddings calls on one collection
   (vector_db_manager.py 129-192) *)

MaxUploads == 2    \* most upload_embeddings calls

\* the chunk lists an embeddings file can hold: the first passages of the
\* book, or one passage alone
ChunkLists ==
    {SubSeq(Chunks(MaxStored), 1, b) : b \in 0..MaxStored}
    \cup {<<Chunk(a)>> : a \in 1..MaxStored}

\* the batch sizes of the calls; with 0 the range() of line 158 raises
\* ValueError
MaxBatchSize == 3
BatchSizes   == 0..MaxBatchSize

\* a reachable server with the collection created and nothing uploaded yet
InitUpload ==
    /\ rpc = "upload"
    /\ client = "server" /\ server_up = TRUE
    /\ stores = [server |-> [exists |-> TRUE, points |-> <<>>], memory |-> NoCollection]
    /\ uploads = <<>>
    /\ entry = "none" /\ rargs = NoArgs /\ embeddings_file = FALSE
    /\ embed_calls = <<>> /\ index_calls = <<>>
    /\ initial_results = <<>> /\ rresults = <<>> /\ rcontext = <<>> /\ rerror = "none"
    /\ RerankIdle
    /\ ExamIdle
    /\ SummaryIdle
    /\ ParserIdle

\* upload_embeddings, lines 144-158: the file is opened and read, the loop is
\* set up.  A file that cannot be read as {"chunks": [...]} and a batch_size
\* of 0 raise before anything is sent.
UploadCall ==
    /\ rpc = "upload"
    /\ Len(uploads) < MaxUploads
    /\ \E readable \in BOOLEAN, chunks \in ChunkLists, batch_size \in BatchSizes :
          IF ~readable
          THEN /\ chunks = <<>>
               /\ uploads' = Append(uploads, UploadRecord(<<>>, batch_size, "raised"))
               /\ rpc' = "raised"
               /\ rerror' = "UploadFileError"
          ELSE IF batch_size = 0
          THEN /\ uploads' = Append(uploads, UploadRecord(chunks, batch_size, "raised"))
               /\ rpc' = "raised"
               /\ rerror' = "UploadValueError"
          ELSE /\ uploads' = Append(uploads, UploadRecord(chunks, batch_size, "running"))
               /\ rpc' = "uploading"
               /\ rerror' = rerror
    /\ UNCHANGED <<entry, rargs, server_up, embeddings_file, client, stores, embed_calls,
                   index_calls, initial_results, rresults, rcontext>>
    /\ UNCHANGED <<rerankVars, examVars, summaryVars, parserVars>>

\* what client.upsert can answer: the call does not get through, or it reaches
\* the index, which stores the points or has no such collection
UpsertAnswers(which, up, store) ==
    {IF answer = "error" THEN "unavailable"
     ELSE IF store.exists THEN "ok" ELSE "not_found" : answer \in CallAnswers(which, up)}

\* one pass of the loop of lines 158-189: the points of the batch are built
\* and sent in one client.upsert; what the client raises ends the call with
\* the earlier batches stored
UploadBatch ==
    /\ rpc = "uploading"
    /\ LET u  == Len(uploads)
           up == uploads[u]
           nb == NextBatch(up)
       IN  /\ up.i < Len(up.chunks)
           /\ \E answer \in UpsertAnswers(client, server_up, stores[client]) :
                 IF answer = "ok"
                 THEN /\ stores' = [stores EXCEPT ![client].points = Upsert(@, nb.points)]
                      /\ uploads' = [uploads EXCEPT ![u] = Sent(up, nb)]
                      /\ UNCHANGED <<rpc, rerror>>
                 ELSE /\ uploads' = [uploads EXCEPT ![u].state = "raised"]
                      /\ rpc' = "raised"
                      /\ rerror' = IF answer = "not_found" THEN "CollectionNotFound"
                                   ELSE "IndexUnavailable"
                      /\ UNCHANGED stores
    /\ UNCHANGED <<entry, rargs, server_up, embeddings_file, client, embed_calls,
                   index_calls, initial_results, rresults, rcontext>>
    /\ UNCHANGED <<rerankVars, examVars, summaryVars, parserVars>>

\* lines 191-192: the loop is over, `return uploaded`
UploadReturn ==
    /\ rpc = "uploading"
    /\ LET u == Len(uploads)
       IN  /\ uploads[u].i >= Len(uploads[u].chunks)
           /\ uploads' = [uploads EXCEPT ![u].state = "returned",
                                         ![u].returned = uploads[u].uploaded]
    /\ rpc' = "upload"
    /\ UNCHANGED <<entry, rargs, server_up, embeddings_file, client, stores, embed_calls,
                   index_calls, initial_results, rresults, rcontext, rerror>>
    /\ UNCHANGED <<rerankVars, examVars, summaryVars, parserVars>>

\* VectorDBManager.delete_collection (280-284): the collection is gone with
\* all its points, unless the call raises; uploads then counts the calls into
\* the next collection
DeleteCollection ==
    /\ rpc = "upload"
    /\ \E answer \in CallAnswers(client, server_up) :
          IF answer = "error"
          THEN /\ rpc' = "raised"
               /\ rerror' = "IndexUnavailable"
               /\ UNCHANGED <<stores, uploads>>
          ELSE /\ stores' = [stores EXCEPT ![client] = NoCollection]
               /\ uploads' = IF stores[client].exists THEN <<>> ELSE uploads
               /\ UNCHANGED <<rpc, rerror>>
    /\ UNCHANGED <<entry, rargs, server_up, embeddings_file, client, embed_calls,
                   index_calls, initial_results, rresults, rcontext>>
    /\ UNCHANGED <<rerankVars, examVars, summaryVars, parserVars>>

\* VectorDBManager.create_collection, lines 82-91: get_collections; an existing
\* collection is kept as it is (return) unless recreate is set.  Here and in
\* the steps below the call that raises ends create_collection with what the
\* calls before have done.
CreateCollection ==
    /\ rpc = "upload"
    /\ \E recreate \in BOOLEAN, answer \in CallAnswers(client, server_up) :
          IF answer = "error"
          THEN rpc' = "raised" /\ rerror' = "IndexUnavailable"
          ELSE /\ rpc' = IF ~stores[client].exists THEN "create_create"
                         ELSE IF recreate THEN "create_delete" ELSE "upload"
               /\ rerror' = rerror
    /\ UNCHANGED <<stores, uploads>>
    /\ UNCHANGED <<entry, rargs, server_up, embeddings_file, client, embed_calls,
                   index_calls, initial_results, rresults, rcontext>>
    /\ UNCHANGED <<rerankVars, examVars, summaryVars, parserVars>>

\* line 88: the existing collection is deleted with all its points
CreateDelete ==
    /\ rpc = "create_delete"
    /\ \E answer \in CallAnswers(client, server_up) :
          IF answer = "error"
          THEN /\ rpc' = "raised" /\ rerror' = "IndexUnavailable"
               /\ UNCHANGED <<stores, uploads>>
          ELSE /\ stores' = [stores EXCEPT ![client] = NoCollection]
               /\ uploads' = <<>>
               /\ rpc' = "create_create"
               /\ rerror' = rerror
    /\ UNCHANGED <<entry, rargs, server_up, embeddings_file, client, embed_calls,
                   index_calls, initial_results, rresults, rcontext>>
    /\ UNCHANGED <<rerankVars, examVars, summaryVars, parserVars>>

\* line 95: the empty collection is created
CreateCreate ==
    /\ rpc = "create_create"
    /\ \E answer \in CallAnswers(client, server_up) :
          IF answer = "error"
          THEN /\ rpc' = "raised" /\ rerror' = "IndexUnavailable"
               /\ UNCHANGED <<stores, uploads>>
          ELSE /\ stores' = [stores EXCEPT ![client] = [exists |-> TRUE, points |-> <<>>]]
               /\ uploads' = <<>>
               /\ rpc' = "create_index_1"
               /\ rerror' = rerror
    /\ UNCHANGED <<entry, rargs, server_up, embeddings_file, client, embed_calls,
                   index_calls, initial_results, rresults, rcontext>>
    /\ UNCHANGED <<rerankVars, examVars, summaryVars, parserVars>>

\* lines 107, 114, 121: the payload indexes of metadata.chapter_num,
\* metadata.section_num and metadata.content_type, one call each
CreateIndex ==
    /\ rpc \in {"create_index_1", "create_index_2", "create_index_3"}
    /\ \E answer \in CallAnswers(client, server_up) :
          IF answer = "error"
          THEN rpc' = "raised" /\ rerror' = "IndexUnavailable"
          ELSE /\ rpc' = IF rpc = "create_index_1" THEN "create_index_2"
                         ELSE IF rpc = "create_index_2" THEN "create_index_3"
                         ELSE "upload"
               /\ rerror' = rerror
    /\ UNCHANGED <<stores, uploads>>
    /\ UNCHANGED <<entry, rargs, server_up, embeddings_file, client, embed_calls,
                   index_calls, initial_results, rresults, rcontext>>
    /\ UNCHANGED <<rerankVars, examVars, summaryVars, parserVars>>

NextUpload ==
    \/ UploadCall
    \/ UploadBatch
    \/ UploadReturn
    \/ DeleteCollection
    \/ CreateCollection
    \/ CreateDelete
    \/ CreateCreate
    \/ CreateIndex

SpecUpload == InitUpload /\ [][NextUpload]_vars

\* the chunk_ids uploaded so far
EverUploaded ==
    UNION {{uploads[u].chunks[i].chunk_id : i \in 1..Len(uploads[u].chunks)} :
              u \in 1..Len(uploads)}

\* the points of the collection that hold chunk_id cid
PointsOf(cid) ==
    {i \in 1..Len(stores[client].points) : stores[client].points[i].payload.chunk_id = cid}

\* C20: after any sequence of upload_embeddings calls the index holds exactly
\* one record per distinct chunk_id ever uploaded (nothing uploaded is removed
\* or overwritten by a passage with another chunk_id, nothing is held twice).
C20_OneRecordPerChunkId ==
    rpc = "upload" =>
        /\ \A cid \in EverUploaded : Cardinality(PointsOf(cid)) = 1
        /\ Len(stores[client].points) = Cardinality(EverUploaded)

\* a passage keeps the internal numeric id it was first given (violated as well)
UploadedIdsAreStable ==
    [][rpc = "upload" =>
        \A i \in 1..Len(stores[client].points) :
          \A j \in 1..Len(stores'[client].points) :
            stores[client].points[i].payload.chunk_id = stores'[client].points[j].payload.chunk_id
                => stores[client].points[i].id = stores'[client].points[j].id]_vars

\* uploading the same file again changes nothing
ReuploadIsIdempotent ==
    (rpc = "upload" /\ Len(uploads) = 2 /\ uploads[1].chunks = uploads[2].chunks) =>
        stores[client].points =
            UploadEmbeddings(<<>>, uploads[1].chunks, uploads[1].batch_size).points

-----------------------------------------------------------------------------
(* Requests as they come in over the boundaries of the system: the /search and
   /query endpoints (api_server.py 16-31, 144-238) and the interactive command
   line (test_rag.py 108-143), each ending in retrieve_level_two *)

Boundaries == {"api_search", "api_query", "cli"}
KRequests  == {-1, 0, 1, 2, 11, 21}

\* SearchRequest.k: Field(ge=1, le=20); QueryRequest.k: Field(ge=1, le=10);
\* test_rag takes int(part.split(':')[1]) as it is
AcceptsK(via, kk) ==
    IF via = "api_search" THEN 1 <= kk /\ kk <= 20
    ELSE IF via = "api_query" THEN 1 <= kk /\ kk <= 10
    ELSE TRUE

\* a constructed retriever on a server that holds n passages, and a request
InitBoundary ==
    /\ rpc = "request"
    /\ entry = "retrieve_level_two"
    /\ \E via \in Boundaries, q \in Queries, kk \in KRequests :
          rargs = [via |-> via, query |-> q, k |-> kk, initial_k |-> 40,
                   chapter_filter |-> None, content_type_filter |-> None,
                   score_threshold |-> 0]
    /\ server_up \in BOOLEAN
    /\ embeddings_file = FALSE
    /\ client = "server"
    /\ \E n \in 0..MaxStored :
          stores = [server |-> Collection(n), memory |-> NoCollection]
    /\ uploads = <<>> /\ embed_calls = <<>> /\ index_calls = <<>>
    /\ initial_results = <<>> /\ rresults = <<>> /\ rcontext = <<>> /\ rerror = "none"
    /\ RerankIdle
    /\ ExamIdle
    /\ SummaryIdle
    /\ ParserIdle

\* the validation of the request model, or none
BoundaryCheck ==
    /\ rpc = "request"
    /\ IF AcceptsK(rargs.via, rargs.k)
       THEN rpc' = "ready" /\ rerror' = rerror
       ELSE rpc' = "rejected" /\ rerror' = "ValidationError"
    /\ UNCHANGED <<entry, rargs, server_up, embeddings_file, client, stores, uploads,
                   embed_calls, index_calls, initial_results, rresults, rcontext>>
    /\ UNCHANGED <<rerankVars, examVars, summaryVars, parserVars>>

NextBoundary ==
    \/ BoundaryCheck
    \/ EmbedQuery
    \/ LevelTwoSearch

SpecBoundary == InitBoundary /\ [][NextBoundary]_vars

\* the request was turned away before the engine did anything
TurnedAway ==
    /\ rpc \in {"request", "rejected"}
    /\ embed_calls = <<>> /\ index_calls = <<>>
    /\ rresults = <<>> /\ rcontext = <<>>

\* C21: for all k <= 0 a retrieval request is rejected at the boundary instead
\* of being executed: no embedding call, no index search, no result list
\* returned.
C21_NonPositiveKRejected ==
    rargs.k <= 0 => TurnedAway

\* the two endpoints of the HTTP API do reject every k <= 0
ApiRejectsNonPositiveK ==
    (rargs.k <= 0 /\ rargs.via \in {"api_search", "api_query"}) => TurnedAway

ApiRejectionReached ==
    rargs.k = 0 /\ rargs.via = "api_search" /\ rpc = "rejected"

-----------------------------------------------------------------------------
(* Properties of retrieve_for_exam_question: the sub-queries and the order of
   the returned list *)

\* the text of option i of the question
OptionText(opts, i) ==
    IF opts.kind = "dict" THEN opts.items[i][2] ELSE opts.items[i]

\* the base-retriever call that the claim puts at position i of the call
ExpectedCall(i) ==
    IF i = 1
    THEN [query |-> <<"scenario", "question">>, top_k |-> ek,
          chapter_filter |-> exam_chapter_filter]
    ELSE [query |-> <<"question", OptionText(options, i - 1)>>,
          top_k |-> IF ek \div 2 > 3 THEN ek \div 2 ELSE 3,
          chapter_filter |-> exam_chapter_filter]

CallOf(q) == [query |-> q.query, top_k |-> q.top_k, chapter_filter |-> q.chapter_filter]

\* C22: retrieve_for_exam_question issues exactly 1 + len(options) calls of the
\* base retriever in a fixed order: first scenario+question with k, then one
\* per option in the original order for question+option with max(3, k // 2),
\* each with the same chapter filter.
C22_SubQueriesInFixedOrder ==
    /\ Len(surfaced) <= 1 + OptionsLen(options)
    /\ \A i \in 1..Len(surfaced) : CallOf(surfaced[i]) = ExpectedCall(i)
    /\ ExamReturned => Len(surfaced) = 1 + OptionsLen(options)

\* for a list of option texts the calls are the ones of C22
FixedOrderForOptionLists ==
    options.kind = "list" => C22_SubQueriesInFixedOrder

OptionListQueried ==
    /\ ExamReturned
    /\ ek = 7 /\ exam_chapter_filter = Some("1")
    /\ options = OptionList(3) /\ Len(surfaced) = 4
    /\ surfaced[4].query = <<"question", "option 3">> /\ surfaced[4].top_k = 3

\* for a dict the sub-query of an option holds its letter, not its text
OptionLetterQueried ==
    /\ ExamReturned
    /\ options = OptionDict(3) /\ Len(surfaced) = 4
    /\ surfaced[2].query = <<"question", "A">>

\* the deduplicated results that the cap cut off
Dropped ==
    {i \in 1..Len(results_by_id) :
        results_by_id[i].chunk_id \notin IdsOf(final_results)}

\* C23: the returned list of retrieve_for_exam_question is sorted by descending
\* score, and the truncation keeps the highest-scoring deduplicated results: no
\* dropped result has a score strictly greater than a kept one.
C23_SortedAndKeepsHighest ==
    ExamReturned =>
        /\ \A i, j \in 1..Len(final_results) :
              i < j => final_results[i].score >= final_results[j].score
        /\ \A d \in Dropped : \A j \in 1..Len(final_results) :
              results_by_id[d].score <= final_results[j].score

\* thirteen deduplicated results of several scores, one of them cut off
C23_Witness ==
    /\ ExamReturned
    /\ Dropped # {}
    /\ final_results[1].score > final_results[Len(final_results)].score
    /\ \E i \in 1..(Len(results_by_id) - 1) :
          results_by_id[i].score < results_by_id[i + 1].score

\* the sub-queries that failed
FailedSubQueries == {i \in 1..Len(surfaced) : surfaced[i].outcome.kind = "error"}

\* C24: if any sub-query of retrieve_for_exam_question fails (embedding or index
\* error, main or option), the whole call fails with that error and returns no
\* partial result set, and no sub-query is issued after the failing one.
C24_SubQueryFailureFailsCall ==
    \A i \in FailedSubQueries :
        /\ i = Len(surfaced)
        /\ epc = "raised"
        /\ exam_error = surfaced[i].outcome.error
        /\ final_results = <<>> /\ context = <<>>

\* an option query failed after the main query and an option query had hits
C24_Witness ==
    /\ epc = "raised"
    /\ Len(surfaced) = 3
    /\ surfaced[3].outcome.error = "EmbeddingError"
    /\ OptionsLen(options) = 3
    /\ results_by_id # <<>>

\* the main query failed with an index error
MainQueryFailureReached ==
    /\ epc = "raised" /\ Len(surfaced) = 1 /\ exam_error = "IndexUnavailable"

\* the place of chunk_id cid in the order in which the sub-queries surfaced
\* the passages: main query first, then the options in their order
FirstSeenIn(all, cid) ==
    CHOOSE i \in 1..Len(all) :
        all[i].chunk_id = cid /\ \A j \in 1..(i - 1) : all[j].chunk_id # cid

\* C27: in retrieve_for_exam_question results of equal score keep their
\* first-seen order (main query before options, options in order), in the
\* returned list and at the cut-off, so both are fully determined.
C27_TiesKeepFirstSeenOrder ==
    ExamReturned =>
        LET all == AllHits(surfaced)
        IN  /\ \A i, j \in 1..Len(final_results) :
                  (i < j /\ final_results[i].score = final_results[j].score) =>
                      FirstSeenIn(all, final_results[i].chunk_id)
                          < FirstSeenIn(all, final_results[j].chunk_id)
            /\ \A d \in Dropped : \A j \in 1..Len(final_results) :
                  results_by_id[d].score = final_results[j].score =>
                      FirstSeenIn(all, final_results[j].chunk_id)
                          < FirstSeenIn(all, results_by_id[d].chunk_id)

\* thirteen deduplicated results, the one cut off tied with a kept one that an
\* earlier sub-query surfaced
C27_Witness ==
    /\ ExamReturned
    /\ \E d \in Dropped :
          /\ results_by_id[d].score = final_results[Len(final_results)].score
          /\ final_results[Len(final_results) - 1].score = results_by_id[d].score

-----------------------------------------------------------------------------
(* Properties of rerank: the padding loop *)

\* the while loop is entered for another pass
PadPassDue == pc = "pad" /\ PadNeeded(reranked, results, k)

\* C25: rerank terminates for every candidate list, k and response: a pass of
\* the padding loop always adds a candidate (or the loop exits), also when the
\* list holds results equal field by field or the response repeats an index.
C25_PadPassAddsCandidate ==
    PadPassDue => Len(PadFor(heap, results, k, reranked)) > Len(reranked)

\* a pass of the padding loop that leaves reranked as it was, with the loop
\* condition still true: the loop runs forever
PadLoopStuck == PadPassDue /\ PadFor(heap, results, k, reranked) = reranked

\* over candidates of distinct chunk_ids every pass adds a candidate, also
\* when the response repeats an index
PadPassAddsOnDistinctIds ==
    (PadPassDue /\ \A i, j \in 1..Len(results) :
                      heap[results[i]].chunk_id = heap[results[j]].chunk_id => i = j)
        => PadFor(heap, results, k, reranked) # reranked

RepeatedIndexPadded ==
    /\ PadPassDue
    /\ Len(reranked) = 2 /\ reranked[1] = reranked[2]

-----------------------------------------------------------------------------
(* Properties of rerank: where the returned elements come from *)

\* the fields of a result other than its score
Payload(r) ==
    [chunk_id |-> r.chunk_id, content |-> r.content, summary |-> r.summary,
     section_header |-> r.section_header, metadata |-> r.metadata]

\* the model named the index of the candidate behind ref
NamedByModel(ref) ==
    \E i \in 1..Len(Named) : results[Named[i] + 1] = ref

\* position i of the returned list was filled by the fallback (or the early
\* return), or by the padding after the named candidates
FallbackOrPadding(i) ==
    \/ NumCand <= k
    \/ Unusable
    \/ i > Min(k, Len(Named))

\* C26: every element returned by rerank is one of the input candidates, with
\* the chunk_id, content, summary, section_header and metadata it came in with;
\* nothing is fabricated, and a candidate at an index the model did not name is
\* returned only by the padding or the fallback.
C26_ReturnsOnlyInputCandidates ==
    Returned =>
        \A i \in 1..Len(ret) :
            /\ ret[i] \in Range(results)
            /\ ret[i] \in DOMAIN given
            /\ Payload(heap[ret[i]]) = Payload(given[ret[i]])
            /\ ~NamedByModel(ret[i]) => FallbackOrPadding(i)

\* response "2" for five candidates and k = 3: the named candidate with its
\* rank score, then two padded ones
C26_Witness ==
    /\ Returned /\ NumCand = 5 /\ k = 3
    /\ response.text = <<"2">>
    /\ Len(ret) = 3
    /\ NamedByModel(ret[1]) /\ ~NamedByModel(ret[2])
    /\ heap[ret[1]].score # given[ret[1]].score

-----------------------------------------------------------------------------
(* Properties of upload_embeddings: the batches of one call *)

RECURSIVE Flatten(_)
\* the points of the upsert calls of one upload, in the order they were sent
Flatten(batches) ==
    IF batches = <<>> THEN <<>> ELSE Head(batches) \o Flatten(Tail(batches))

\* the payload upload_embeddings stores for a chunk of the file
PayloadOf(chunk) ==
    [chunk_id |-> chunk.chunk_id, content |-> chunk.content, summary |-> chunk.summary,
     section_header |-> chunk.section_header, metadata |-> chunk.metadata]

\* C29: for any batch_size >= 1 and any file of n chunks, upload_embeddings
\* uploads every chunk in exactly one batch, in file order, under the distinct
\* point ids 0..n-1, and returns n.  (A call the index lets through returns;
\* up to there, and in a call the index stops, what was sent is the file's
\* chunks so far, in that form.)
C29_EveryChunkOnceInFileOrder ==
    \A u \in 1..Len(uploads) :
        LET up   == uploads[u]
            n    == Len(up.chunks)
            sent == Flatten(up.upserts)
        IN  /\ Len(sent) <= n
            /\ \A i \in 1..Len(sent) :
                  /\ sent[i].id = i - 1
                  /\ sent[i].vector = up.chunks[i].embedding
                  /\ sent[i].payload = PayloadOf(up.chunks[i])
            /\ \A b \in 1..Len(up.upserts) :
                  Len(up.upserts[b]) >= 1 /\ Len(up.upserts[b]) <= up.batch_size
            /\ up.state = "returned" => up.returned = n /\ Len(sent) = n
            /\ (up.state = "running" /\ up.i >= n) => Len(sent) = n

\* four chunks in batches of three: a full batch and a last batch of one
C29_Witness ==
    /\ Len(uploads) >= 1
    /\ uploads[1].state = "returned"
    /\ Len(uploads[1].chunks) = 4 /\ uploads[1].batch_size = 3
    /\ Len(uploads[1].upserts) = 2
    /\ uploads[1].upserts[2][1].id = 3
    /\ uploads[1].returned = 4

\* the index stops the second batch of a call: the first batch stays stored
\* and the call returns nothing
SecondBatchRefused ==
    /\ rpc = "raised" /\ rerror = "IndexUnavailable"
    /\ Len(uploads) = 1 /\ uploads[1].state = "raised"
    /\ Len(uploads[1].chunks) = 4 /\ uploads[1].batch_size = 2
    /\ Len(stores[client].points) = 2

-----------------------------------------------------------------------------
(* SummaryGenerator.generate_summary (summary_generator.py 79-135) *)

MaxRetries   == 3
MaxSummaries == 2

\* What one chat.completions.create call can give: a response whose message
\* content is a text or None, or an error raised by the call.
AttemptOutcomes ==
    {[kind |-> "response", content |-> Some(<<" ", "s", "u", "m", "\n">>)],
     [kind |-> "response", content |-> None],
     [kind |-> "error", content |-> None]}

\* the try block runs to its return: the call gave a response and
\* message.content.strip() did not raise
AttemptSucceeds(out) == out.kind = "response" /\ out.content # None

\* summary = response.choices[0].message.content.strip()
SummaryOf(out) == Some(Strip(out.content[1]))

\* faulty variant: the last attempt is retried as well
MoreAttempts_offbyone(a, r) == a < r

\* `if attempt < retries - 1`
MoreAttempts(a, r) == a < r - 1

\* time.sleep(2 ** attempt)
Backoff(a) == 2 ^ a

\* a generator after construction
InitSummary ==
    /\ gpc = "ready"
    /\ retries = 0 /\ attempt = 0 /\ attempts = <<>> /\ sleeps = <<>>
    /\ successful_summaries = 0 /\ failed_summaries = 0
    /\ generated = <<>>
    /\ RerankIdle
    /\ ExamIdle
    /\ RetrIdle
    /\ ParserIdle

\* the call, up to the head of `for attempt in range(retries)`
GenerateSummaryCall ==
    /\ gpc = "ready"
    /\ Len(generated) < MaxSummaries
    /\ retries' \in 1..MaxRetries
    /\ attempt' = 0 /\ attempts' = <<>> /\ sleeps' = <<>>
    /\ gpc' = "attempt"
    /\ UNCHANGED <<successful_summaries, failed_summaries, generated>>
    /\ UNCHANGED <<rerankVars, examVars, retrVars, parserVars>>

\* the record of a completed call
Completed(made, slept, value) ==
    [retries |-> retries, attempts |-> made, sleeps |-> slept, value |-> value]

\* one iteration of the loop (91-133), and the return after the loop (135)
\* when the loop has no iteration left
SummaryAttempt ==
    /\ gpc = "attempt"
    /\ attempt < retries
    /\ \E out \in AttemptOutcomes :
          LET made  == Append(attempts, out)
              slept == Append(sleeps, Backoff(attempt))
          IN
          /\ attempts' = made
          /\ IF AttemptSucceeds(out)
             THEN /\ successful_summaries' = successful_summaries + 1
                  /\ generated' = Append(generated, Completed(made, sleeps, SummaryOf(out)))
                  /\ gpc' = "ready"
                  /\ UNCHANGED <<attempt, sleeps, failed_summaries>>
             ELSE IF MoreAttempts(attempt, retries)
             THEN /\ sleeps' = slept
                  /\ attempt' = attempt + 1
                  /\ IF attempt + 1 < retries
                     THEN gpc' = "attempt" /\ UNCHANGED generated
                     ELSE /\ gpc' = "ready"
                          /\ generated' = Append(generated, Completed(made, slept, None))
                  /\ UNCHANGED <<successful_summaries, failed_summaries>>
             ELSE /\ failed_summaries' = failed_summaries + 1
                  /\ generated' = Append(generated, Completed(made, sleeps, None))
                  /\ gpc' = "ready"
                  /\ UNCHANGED <<attempt, sleeps, successful_summaries>>
    /\ UNCHANGED retries
    /\ UNCHANGED <<rerankVars, examVars, retrVars, parserVars>>

NextSummary ==
    \/ GenerateSummaryCall
    \/ SummaryAttempt

SpecSummary == InitSummary /\ [][NextSummary]_vars

\* an attempt that ended in its return statement
Succeeded(out) == out.kind = "response" /\ Len(out.content) = 1

\* the completed calls that returned a summary, and those that returned None
ReturnedSummary == {i \in 1..Len(generated) : generated[i].value # None}
ReturnedNone    == {i \in 1..Len(generated) : generated[i].value = None}

\* C28: generate_summary with retries >= 1 calls the model at most `retries`
\* times and stops at the first successful attempt; on return it has incremented
\* exactly one counter exactly once: successful_summaries when it returns a
\* summary, failed_summaries when it returns None, which happens only after
\* `retries` consecutive failed attempts.
C28_RetriesAndCounters ==
    /\ \A i \in 1..Len(generated) :
          LET g == generated[i]
              n == Len(g.attempts)
          IN  /\ n >= 1 /\ n <= g.retries
              /\ \A j \in 1..(n - 1) : ~Succeeded(g.attempts[j])
              /\ g.value # None <=> Succeeded(g.attempts[n])
              /\ g.value = None => n = g.retries
    /\ successful_summaries = Cardinality(ReturnedSummary)
    /\ failed_summaries = Cardinality(ReturnedNone)
    /\ Len(attempts) <= retries

\* a call that gave up after two failures, then a call that succeeded at its
\* third attempt
C28_Witness ==
    /\ gpc = "ready" /\ Len(generated) = 2
    /\ generated[1].retries = 2 /\ generated[1].value = None
    /\ generated[2].retries = 3 /\ Len(generated[2].attempts) = 3
    /\ generated[2].value = Some(<<"s", "u", "m">>)
    /\ generated[2].sleeps = <<1, 2>>
    /\ successful_summaries = 1 /\ failed_summaries = 1

-----------------------------------------------------------------------------
(* ExamQuestionParser.parse_question (exam_evaluator.py 30-119).  Text is a
   sequence of characters, as in the index parser above. *)

MaxLines == 4

\* lines a question text is made of
ExamLines ==
    {<<"A", " ", "b", "r", "e", "a", "c", "h">>,
     <<"W", "h", "y", "?">>,
     <<"A", ".", " ", "F", "w">>,
     <<"C", "o", "r", "r", "e", "c", "t", " ", "a", "n", "s", "w", "e", "r", ":", " ", "A">>,
     <<"a", "n", "s", "w", "e", "r", ":", "B", " ", "i", "s", " ", "w", "r", "o", "n", "g">>,
     <<"A", "N", "S", "W", "E", "R">>,
     <<" ", "P", "a", "t", "c", "h", " ">>,
     <<>>,
     <<"a", "n", "U+017F", "w", "e", "r", ":", " ", "C">>}

AsciiLower ==
    <<"a", "b", "c", "d", "e", "f", "g", "h", "i", "j", "k", "l", "m">> \o
    <<"n", "o", "p", "q", "r", "s", "t", "u", "v", "w", "x", "y", "z">>
AsciiUpper ==
    <<"A", "B", "C", "D", "E", "F", "G", "H", "I", "J", "K", "L", "M">> \o
    <<"N", "O", "P", "Q", "R", "S", "T", "U", "V", "W", "X", "Y", "Z">>

\* c.lower() == p for a character p that is no capital: p itself, the capital
\* of p, and KELVIN SIGN for "k"
LowersTo(c, p) ==
    \/ c = p
    \/ \E i \in 1..Len(AsciiLower) : AsciiLower[i] = p /\ AsciiUpper[i] = c
    \/ p = "k" /\ c = "U+212A"

\* c matches the pattern character p under re.IGNORECASE: as str.lower(), and
\* LONG S for "s", DOTTED CAPITAL I and DOTLESS I for "i"
MatchesIgnoreCase(c, p) ==
    \/ LowersTo(c, p)
    \/ p = "s" /\ c = "U+017F"
    \/ p = "i" /\ c \in {"U+0130", "U+0131"}

\* the line starts with the characters of word, up to case
StartsWithIgnoreCase(line, word) ==
    /\ Len(line) >= Len(word)
    /\ \A i \in 1..Len(word) : MatchesIgnoreCase(line[i], word[i])

\* what (.+) holds after \s*(.+)$ has matched the non-empty rest of a line:
\* the rest without its leading white space, or its last character when it is
\* all white space
Group(rest) ==
    IF LStrip(rest) # <<>> THEN LStrip(rest) ELSE <<rest[Len(rest)]>>

OptionLabels == {"A", "B", "C", "D", "1", "2", "3", "4"}

\* re.match(r'^([A-D]|[1-4])\.\s*(.+)$', line)
LabeledOptionMatch(line) ==
    /\ Len(line) >= 3
    /\ line[1] \in OptionLabels
    /\ line[2] = "."

\* the second group of the match
LabeledOptionText(line) == Group(SubSeq(line, 3, Len(line)))

\* the alternatives of (?:Correct answer|Answer), each with its colon
AnswerWords ==
    {<<"c", "o", "r", "r", "e", "c", "t", " ", "a", "n", "s", "w", "e", "r", ":">>,
     <<"a", "n", "s", "w", "e", "r", ":">>}

\* re.match(r'^(?:Correct answer|Answer):\s*(.+)$', line, re.IGNORECASE)
AnswerMatch(line) ==
    \E word \in AnswerWords : StartsWithIgnoreCase(line, word) /\ Len(line) > Len(word)

\* answer_match.group(1).strip()
AnswerText(line) ==
    LET word == CHOOSE w \in AnswerWords : StartsWithIgnoreCase(line, w)
    IN  Strip(Group(SubSeq(line, Len(word) + 1, Len(line))))

\* line.lower() == "answer"
IsAnswerMarker(line) ==
    /\ Len(line) = 6
    /\ \A i \in 1..6 : LowersTo(line[i], <<"a", "n", "s", "w", "e", "r">>[i])

\* line.endswith('?')
EndsWithQuestionMark(line) == line # <<>> /\ line[Len(line)] = "?"

RECURSIVE Join(_, _)
\* sep.join(ls)
Join(ls, sep) ==
    IF ls = <<>> THEN <<>>
    ELSE IF Len(ls) = 1 THEN ls[1]
    ELSE ls[1] \o <<sep>> \o Join(Tail(ls), sep)

\* ' '.join(lines)
JoinLines(ls) == Join(ls, " ")

\* the question texts: up to MaxLines lines, a newline between two
QuestionTexts == {Join(ls, "\n") : ls \in SeqsUpTo(ExamLines, MaxLines)}

\* the locals of the loop
Locals ==
    [current_section |-> current_section, option_mode |-> option_mode,
     scenario_lines |-> scenario_lines, question_lines |-> question_lines,
     options_list |-> options_list, correct_answer |-> correct_answer,
     explanation_lines |-> explanation_lines]

\* the body of the loop (64-104) for one line, on the locals st
Consume(st, raw) ==
    LET line == Strip(raw)
    IN  IF line = <<>> THEN st
        ELSE IF LabeledOptionMatch(line) /\ st.current_section \in {"question", "options"}
        THEN [st EXCEPT !.current_section = "options",
                        !.option_mode = Some("labeled"),
                        !.options_list = Append(@, LabeledOptionText(line))]
        ELSE IF AnswerMatch(line)
        THEN [st EXCEPT !.current_section = "explanation",
                        !.correct_answer = Some(AnswerText(line))]
        ELSE IF IsAnswerMarker(line) /\ st.current_section = "question"
        THEN [st EXCEPT !.current_section = "options",
                        !.option_mode = Some("unlabeled")]
        ELSE IF st.current_section = "scenario"
        THEN IF EndsWithQuestionMark(line)
             THEN [st EXCEPT !.current_section = "question",
                             !.question_lines = Append(@, line)]
             ELSE [st EXCEPT !.scenario_lines = Append(@, line)]
        ELSE IF st.current_section = "question"
        THEN [st EXCEPT !.question_lines = Append(@, line)]
        ELSE IF st.current_section = "options"
        THEN IF st.option_mode = Some("unlabeled")
             THEN [st EXCEPT !.options_list = Append(@, line)]
             ELSE st
        ELSE [st EXCEPT !.explanation_lines = Append(@, line)]

\* parse_question is called with a text
InitParser ==
    /\ ppc = "text"
    /\ question_text \in QuestionTexts
    /\ lines = <<>>
    /\ line_i = 0
    /\ current_section = "scenario" /\ option_mode = None
    /\ scenario_lines = <<>> /\ question_lines = <<>> /\ options_list = <<>>
    /\ correct_answer = None /\ explanation_lines = <<>>
    /\ exam_question = NoQuestion
    /\ RerankIdle
    /\ ExamIdle
    /\ RetrIdle
    /\ SummaryIdle

\* line 51: lines = text.strip().split('\n')
ParseSplit ==
    /\ ppc = "text"
    /\ lines' = Split(Strip(question_text), "\n")
    /\ ppc' = "lines"
    /\ UNCHANGED <<question_text, line_i, current_section, option_mode, scenario_lines,
                   question_lines, options_list, correct_answer, explanation_lines,
                   exam_question>>
    /\ UNCHANGED <<rerankVars, examVars, retrVars, summaryVars>>

\* one iteration of `for i, line in enumerate(lines)`
ParseLine ==
    /\ ppc = "lines"
    /\ line_i < Len(lines)
    /\ LET st == Consume(Locals, lines[line_i + 1])
       IN  /\ current_section' = st.current_section
           /\ option_mode' = st.option_mode
           /\ scenario_lines' = st.scenario_lines
           /\ question_lines' = st.question_lines
           /\ options_list' = st.options_list
           /\ correct_answer' = st.correct_answer
           /\ explanation_lines' = st.explanation_lines
    /\ line_i' = line_i + 1
    /\ UNCHANGED <<ppc, question_text, lines, exam_question>>
    /\ UNCHANGED <<rerankVars, examVars, retrVars, summaryVars>>

\* lines 106-119: the sections are joined and the ExamQuestion returned
ParseReturn ==
    /\ ppc = "lines"
    /\ line_i = Len(lines)
    /\ exam_question' =
          [scenario       |-> Strip(JoinLines(scenario_lines)),
           question       |-> Strip(JoinLines(question_lines)),
           options        |-> options_list,
           correct_answer |-> correct_answer,
           explanation    |-> IF explanation_lines # <<>>
                              THEN Some(Strip(JoinLines(explanation_lines))) ELSE None]
    /\ ppc' = "done"
    /\ UNCHANGED <<question_text, lines, line_i, current_section, option_mode,
                   scenario_lines, question_lines, options_list, correct_answer,
                   explanation_lines>>
    /\ UNCHANGED <<rerankVars, examVars, retrVars, summaryVars>>

NextParser ==
    \/ ParseSplit
    \/ ParseLine
    \/ ParseReturn

SpecParser == InitParser /\ [][NextParser]_vars

\* the order of the sections
SectionRank(section) ==
    CASE section = "scenario"    -> 1
      [] section = "question"    -> 2
      [] section = "options"     -> 3
      [] section = "explanation" -> 4

\* the line the next iteration consumes, stripped
NextLine == Strip(lines[line_i + 1])

\* an answer line has been consumed
AnswerSeen == correct_answer # None

\* C30: while parse_question consumes the lines in order, the current section
\* only moves forward through scenario, question, options, explanation, and
\* every non-empty line after the first 'Correct answer:' / 'Answer:' line goes
\* to the explanation and is never added to the options.
C30_ForwardAndExplanationAfterAnswer ==
    [][(ppc = "lines" /\ line_i < Len(lines)) =>
          /\ SectionRank(current_section') >= SectionRank(current_section)
          /\ (AnswerSeen /\ NextLine # <<>>) =>
                /\ explanation_lines' = Append(explanation_lines, NextLine)
                /\ options_list' = options_list]_vars

\* the section never moves back
SectionMovesForward ==
    [][SectionRank(current_section') >= SectionRank(current_section)]_vars

\* after the first answer line nothing is added to the options, and every
\* non-empty line that does not itself read as an answer line goes to the
\* explanation
AfterAnswerNoOptions ==
    [][(ppc = "lines" /\ line_i < Len(lines) /\ AnswerSeen /\ NextLine # <<>>) =>
          /\ options_list' = options_list
          /\ ~AnswerMatch(NextLine) =>
                explanation_lines' = Append(explanation_lines, NextLine)]_vars

\* a labeled option line after the answer line went to the explanation
OptionLineExplained ==
    /\ ppc = "done"
    /\ lines = <<<<"W", "h", "y", "?">>, <<"A", ".", " ", "F", "w">>,
                 <<"C", "o", "r", "r", "e", "c", "t", " ", "a", "n", "s", "w", "e", "r", ":", " ", "A">>,
                 <<"A", ".", " ", "F", "w">>>>
    /\ exam_question.options = <<<<"F", "w">>>>
    /\ exam_question.explanation = Some(<<"A", ".", " ", "F", "w">>)

\* a second answer line replaced the correct answer and left no explanation
SecondAnswerLineSwallowed ==
    /\ ppc = "done"
    /\ lines = <<<<"C", "o", "r", "r", "e", "c", "t", " ", "a", "n", "s", "w", "e", "r", ":", " ", "A">>,
                 <<"a", "n", "s", "w", "e", "r", ":", "B", " ", "i", "s", " ", "w", "r", "o", "n", "g">>>>
    /\ exam_question.correct_answer = Some(<<"B", " ", "i", "s", " ", "w", "r", "o", "n", "g">>)
    /\ exam_question.explanation = None

\* the marker of unlabeled options in capitals, and white space around the
\* text and around a line
CapitalMarkerRead ==
    /\ ppc = "done"
    /\ question_text = <<" ", "P", "a", "t", "c", "h", " ", "\n", "W", "h", "y", "?", "\n", "A", "N", "S", "W", "E", "R", "\n", " ", "P", "a", "t", "c", "h", " ">>
    /\ exam_question.scenario = <<"P", "a", "t", "c", "h">>
    /\ exam_question.options = <<<<"P", "a", "t", "c", "h">>>>

=============================================================================
